---- MODULE Spec2Model ----
(***************************************************************************)
(* State-machine model of mcp-express-adapter's MCPClient                  *)
(* (src/src/lib/mcp-client.ts): the session registry, the GET /sse stream  *)
(* endpoint, the POST /message intake endpoint, the AsyncLocalStorage      *)
(* context carrier and the single SDK Server ("protocol engine") shared by *)
(* all sessions of one instance.                                           *)
(*                                                                         *)
(* The SDK (@modelcontextprotocol/sdk ^1.9.0) is an external dependency.   *)
(* Where the adapter's behaviour depends on it, the model follows what the *)
(* SDK calls made by the adapter do:                                       *)
(*   - new SSEServerTransport(): sessionId = randomUUID(), never repeated; *)
(*   - Server.connect(t): this._transport = t, installs t.onmessage and    *)
(*     t.onclose, then awaits t.start(), which writes the response head    *)
(*     and the endpoint event and sets t._sseResponse;                     *)
(*   - t.close(): ends the response, clears t._sseResponse, calls          *)
(*     t.onclose, which is Protocol._onclose: this._transport = undefined; *)
(*   - t.handlePostMessage(): reads the request body asynchronously, then  *)
(*     hands the message to t.onmessage (the engine) and answers 202;      *)
(*   - the engine runs the request handler and sends its result with       *)
(*     this._transport?.send(), the transport connected last.              *)
(***************************************************************************)
EXTENDS Integers, Sequences, FiniteSets, TLC

\* Bounds of the model.
MaxStreams == 2
MaxPosts == 2

\* Session identifiers the transports can draw (stand-ins for UUID strings).
SessionIds == {"s" \o ToString(i) : i \in 1..MaxStreams}

\* req.query.sessionId when the parameter is not given at all.
Absent == "<absent>"

\* Property names every JavaScript object inherits from Object.prototype:
\* the registry is a plain object ({}), so reading one of them from it gives
\* the inherited value, not undefined.
ObjectPrototypeKeys == {"constructor"}

\* The values req.query.sessionId takes: absent, empty, or some string.
QueryValues == SessionIds \cup ObjectPrototypeKeys \cup {Absent, ""}

\* req.headers of the n-th POST received: every request carries its own
\* header mapping.
HeadersOf(n) == "h" \o ToString(n)

\* The literal {} used when no store is active.
EmptyHeaders == "{}"

\* What AsyncLocalStorage.getStore() returns outside any run() scope.
NoStore == "undefined"

\* "No transport": a missing registry entry, or Protocol._transport undefined.
NoTransport == 0

\* What reading an inherited property name from the registry gives: a truthy
\* value that is no transport (it has no handlePostMessage).
Inherited == -1

\* The asynchronous call chain of code that no POST /message started.
NoChain == 0

VARIABLES
  activeTransports, \* registry: session id -> transport (a JS object's keys)
  transports,       \* every transport created so far, in creation order
  serverTransport,  \* the engine's single _transport field
  posts,            \* every POST /message request, in order of receipt
  engineLog,        \* posts in the order their message reached the engine
  calls,            \* tool handler invocations: [chain, headers, afterPost]
  client,           \* the instance's tool registry: options.tools and what
                    \* the constructor derived from it
  reply,            \* the engine's answer to the last tools/list or tools/call
  wrap,             \* one invocation of a handler built by mcpTool: the tool,
                    \* the arguments, what the user handler does, the outcome
  instances,        \* several MCPClient instances in one application: each
                    \* one's tools and registry, the sessions opened on
                    \* them, and the answer to the last request
  console           \* the lines written with console.log and console.error:
                    \* [level, at], at being the line of the call that logs

sessionVars == <<activeTransports, transports, serverTransport, posts, engineLog, calls>>
toolVars == <<client, reply, wrap, instances>>
vars == <<activeTransports, transports, serverTransport, posts, engineLog, calls,
          client, reply, wrap, instances, console>>

Streams == 1..Len(transports)
Posts == 1..Len(posts)

\* Identifiers already produced by randomUUID().
UsedIds == {transports[t].sessionId : t \in Streams}

\* Identifiers of sessions whose client connection has closed.
ClosedIds == {transports[t].sessionId : t \in {u \in Streams : ~transports[u].reqOpen}}

----------------------------------------------------------------------------
\* Pure helpers, one per piece of the handlers' code.

\* Mutant: the identifier is drawn from a small space and may repeat.
NewSessionId_Reuse(used) == SessionIds

\* transport.sessionId of a new SSEServerTransport: a fresh random UUID,
\* here the next identifier that no transport has had.
NewSessionId(used) == {"s" \o ToString(Cardinality(used) + 1)}

\* this.activeTransports[sessionId] = transport
Register(reg, sid, t) ==
  [x \in DOMAIN reg \cup {sid} |-> IF x = sid THEN t ELSE reg[x]]

\* Mutant: the close handler forgets to remove the entry.
Unregister_Keep(reg, sid) == reg

\* delete this.activeTransports[sessionId]
Unregister(reg, sid) == [x \in DOMAIN reg \ {sid} |-> reg[x]]

\* Server.connect(transport): the engine keeps one transport, the last one.
ServerConnect(cur, t) == t

\* Protocol._onclose, run by any connected transport's onclose.
ServerOnClose(cur, t) == NoTransport

\* !sessionId
MissingSessionId(q) == q \in {Absent, ""}

\* this.activeTransports[sessionId]: an own entry, else what the prototype
\* chain holds under that name, else undefined.
LookupTransport(reg, q) ==
  IF q \in DOMAIN reg THEN reg[q]
  ELSE IF q \in ObjectPrototypeKeys THEN Inherited
  ELSE NoTransport

\* Mutant: the session lookup runs before the missing-parameter check.
IntakeStatus_LookupFirst(q, reg) ==
  IF LookupTransport(reg, q) = NoTransport THEN 404
  ELSE IF MissingSessionId(q) THEN 400
  ELSE 0

\* The two early returns of POST /message; 0 = go on to forward the message.
IntakeStatus(q, reg) ==
  IF MissingSessionId(q) THEN 400
  ELSE IF LookupTransport(reg, q) = NoTransport THEN 404
  ELSE 0

\* Mutant: the headers are kept per session (on the transport), so a chain
\* reads those of the latest POST of its session.
GetStore_PerSession(ps, chain) ==
  IF chain = NoChain THEN NoStore
  ELSE LET same == {p \in 1..Len(ps) : /\ ps[p].store # NoStore
                                        /\ ps[p].sessionId = ps[chain].sessionId}
       IN ps[CHOOSE p \in same : \A r \in same : r <= p].store

\* Mutant: one module-level variable holds the headers of the last run().
GetStore_Global(ps, chain) ==
  LET entered == {p \in 1..Len(ps) : ps[p].store # NoStore}
  IN IF entered = {} THEN NoStore
     ELSE ps[CHOOSE p \in entered : \A r \in entered : r <= p].store

\* requestStorage.getStore(): the store of the calling asynchronous chain,
\* which is the headers object given to run() by the POST that started it.
GetStore(ps, chain) == IF chain = NoChain THEN NoStore ELSE ps[chain].store

\* const headers = requestStorage.getStore() || {}; context = { headers }
ToolContext(store) ==
  [headers |-> IF store = NoStore THEN EmptyHeaders ELSE store]

\* Mutant: the catch block answers 500 without looking at res.headersSent;
\* on a response already sent Express throws out of the handler.
AfterForwardError_Always(post) ==
  IF post.sends = 0
  THEN [post EXCEPT !.status = 500, !.sends = 1, !.sentBy = "route", !.pc = "done"]
  ELSE [post EXCEPT !.escaped = TRUE, !.pc = "done"]

\* catch (error) { if (!res.headersSent) res.status(500).send(...) }
AfterForwardError(post) ==
  IF post.sends = 0
  THEN [post EXCEPT !.status = 500, !.sends = 1, !.sentBy = "route", !.pc = "done"]
  ELSE [post EXCEPT !.pc = "done"]

\* The engine sends a result with this._transport?.send(); the transport's
\* send() writes to its own response and throws when _sseResponse is unset
\* (the engine catches that).  id names the request answered.
SendResponse(ts, target, id) ==
  IF target # NoTransport /\ ts[target].sseResponse
  THEN [ts EXCEPT ![target].frames = @ \cup {id}]
  ELSE ts

----------------------------------------------------------------------------
\* JavaScript values, as far as mcpTool looks at them (src/src/lib/tools.ts).
\* kind is the value's type as zod and typeof tell it apart; lit is the text
\* of a scalar (a string's characters, a number's or boolean's literal);
\* entries are the properties of an object in insertion order, or the
\* elements of an array (with empty keys).

Field(k, v) == [key |-> k, val |-> v]
Str(s) == [kind |-> "string", lit |-> s, entries |-> <<>>]
Num(s) == [kind |-> "number", lit |-> s, entries |-> <<>>]
Bool(s) == [kind |-> "boolean", lit |-> s, entries |-> <<>>]
Null == [kind |-> "null", lit |-> "null", entries |-> <<>>]
Undefined == [kind |-> "undefined", lit |-> "undefined", entries |-> <<>>]
Obj(fields) == [kind |-> "object", lit |-> "", entries |-> fields]
Arr(items) ==
  [kind |-> "array", lit |-> "",
   entries |-> [i \in 1..Len(items) |-> Field("", items[i])]]

\* v[k] for an own property k of an object; undefined otherwise.
HasKey(v, k) ==
  v.kind = "object" /\ \E i \in 1..Len(v.entries) : v.entries[i].key = k
Get(v, k) ==
  IF HasKey(v, k)
  THEN v.entries[CHOOSE i \in 1..Len(v.entries) : v.entries[i].key = k].val
  ELSE Undefined

\* typeof v, Array.isArray(v), and v in a boolean position.
TypeOf(v) == IF v.kind \in {"object", "array", "null"} THEN "object" ELSE v.kind
IsArray(v) == v.kind = "array"
Truthy(v) ==
  /\ v.kind \notin {"null", "undefined"}
  /\ ~(v.kind = "string" /\ v.lit = "")
  /\ ~(v.kind = "number" /\ v.lit = "0")
  /\ ~(v.kind = "boolean" /\ v.lit = "false")

\* Array.prototype.join over strings.
RECURSIVE JoinStrings(_, _)
JoinStrings(strs, sep) ==
  IF Len(strs) = 0 THEN ""
  ELSE IF Len(strs) = 1 THEN strs[1]
  ELSE strs[1] \o sep \o JoinStrings(Tail(strs), sep)

\* n spaces.
RECURSIVE Pad(_)
Pad(n) == IF n = 0 THEN "" ELSE " " \o Pad(n - 1)

\* JSON.stringify(v, null, indent) as it appears in a template string, for
\* indent 0 (compact) and 2; level is the nesting depth of v.  The strings
\* considered need no escaping.
RECURSIVE Stringify(_, _, _)
StringifyMembers(v, indent, level) ==
  [i \in 1..Len(v.entries) |->
     Pad(indent * (level + 1))
       \o (IF v.kind = "object"
           THEN "\"" \o v.entries[i].key \o "\""
                  \o (IF indent = 0 THEN ":" ELSE ": ")
           ELSE "")
       \o Stringify(v.entries[i].val, indent, level + 1)]
Stringify(v, indent, level) ==
  LET open == IF v.kind = "object" THEN "{" ELSE "["
      close == IF v.kind = "object" THEN "}" ELSE "]"
      nl == IF indent = 0 THEN "" ELSE "\n"
  IN IF v.kind = "string" THEN "\"" \o v.lit \o "\""
     ELSE IF v.kind \notin {"object", "array"} THEN v.lit
     ELSE IF Len(v.entries) = 0 THEN open \o close
     ELSE open \o nl
            \o JoinStrings(StringifyMembers(v, indent, level), "," \o nl)
            \o nl \o Pad(indent * level) \o close

\* String(v) for a scalar.
StringOf(v) == v.lit

\* A response with one text block, and the same flagged as an error.
TextResponse(t) ==
  Obj(<<Field("content",
          Arr(<<Obj(<<Field("type", Str("text")), Field("text", Str(t))>>)>>))>>)
ErrorResponse(t) ==
  Obj(<<Field("content",
          Arr(<<Obj(<<Field("type", Str("text")), Field("text", Str(t))>>)>>)),
        Field("isError", Bool("true"))>>)

\* Mutant: objects and arrays are converted with String(), not serialized.
FormatOutput_StringOf(output) ==
  IF Truthy(output) /\ TypeOf(output) = "object" /\ IsArray(Get(output, "content"))
  THEN output
  ELSE IF TypeOf(output) = "string" THEN TextResponse(output.lit)
  ELSE IF output.kind \in {"null", "undefined"} THEN TextResponse("")
  ELSE IF output.kind = "object" THEN TextResponse("[object Object]")
  ELSE TextResponse(StringOf(output))

\* formatOutput(output)
FormatOutput(output) ==
  IF Truthy(output) /\ TypeOf(output) = "object" /\ IsArray(Get(output, "content"))
  THEN output
  ELSE IF TypeOf(output) = "string" THEN TextResponse(output.lit)
  ELSE IF output.kind \in {"null", "undefined"} THEN TextResponse("")
  ELSE IF TypeOf(output) = "object" \/ IsArray(output)
  THEN TextResponse(Stringify(output, 2, 0))
  ELSE TextResponse(StringOf(output))

----------------------------------------------------------------------------
\* Zod schemas, as far as the tools use them: z.any(), z.string(),
\* z.number() and z.object({...}) with required and optional fields.
\* "none" stands for an outputSchema that was not given.

ZField(k, opt, sch) == [key |-> k, optional |-> opt, schema |-> sch]
ZAny == [kind |-> "any", shape |-> <<>>]
ZString == [kind |-> "string", shape |-> <<>>]
ZNumber == [kind |-> "number", shape |-> <<>>]
ZObject(shape) == [kind |-> "object", shape |-> shape]
NoSchema == [kind |-> "none", shape |-> <<>>]

\* error.errors of the ZodError that schema.parse(v) throws (empty: parse
\* returns): one issue per failing field, in the order of the schema, each
\* with the path of the field and zod's message.
RECURSIVE Issues(_, _, _)
RECURSIVE ShapeIssues(_, _, _, _)
ShapeIssues(shape, i, v, path) ==
  IF i > Len(shape) THEN <<>>
  ELSE LET f == shape[i]
           fv == Get(v, f.key)
       IN (IF f.optional /\ fv.kind = "undefined" THEN <<>>
           ELSE Issues(f.schema, fv, Append(path, f.key)))
          \o ShapeIssues(shape, i + 1, v, path)
Issues(schema, v, path) ==
  IF schema.kind = "any" THEN <<>>
  ELSE IF schema.kind = "object" /\ v.kind = "object"
  THEN ShapeIssues(schema.shape, 1, v, path)
  ELSE IF v.kind = schema.kind THEN <<>>
  ELSE <<[path |-> path,
          message |-> IF v.kind = "undefined" THEN "Required"
                      ELSE "Expected " \o schema.kind \o ", received " \o v.kind]>>

\* Mutant: only the first issue is reported.
ErrorMessage_FirstOnly(issues) ==
  JoinStrings(issues[1].path, ".") \o ": " \o issues[1].message

\* error.errors.map((e) => `${e.path.join('.')}: ${e.message}`).join(', ')
ErrorMessage(issues) ==
  JoinStrings([i \in 1..Len(issues) |->
                 JoinStrings(issues[i].path, ".") \o ": " \o issues[i].message],
              ", ")

\* Mutant: the return value is formatted without being validated.
AfterHandler_Unchecked(outputSchema, result) ==
  IF outputSchema.kind # "none" THEN FormatOutput(result)
  ELSE IF TypeOf(result) # "string"
  THEN ErrorResponse("Handler returned non-string value, but no output schema was provided. Value: "
                      \o Stringify(result, 0, 0))
  ELSE FormatOutput(result)

\* Mutant: without an output schema any return value is formatted.
AfterHandler_Coerced(outputSchema, result) ==
  IF outputSchema.kind # "none"
  THEN LET out == Issues(outputSchema, result, <<>>)
       IN IF out # <<>>
          THEN ErrorResponse("Output validation error: " \o ErrorMessage(out))
          ELSE FormatOutput(result)
  ELSE FormatOutput(result)

\* What the wrapped handler does with the value the user handler returned:
\* output validation when an output schema was given, else the string check,
\* then formatOutput.
AfterHandler(outputSchema, result) ==
  IF outputSchema.kind # "none"
  THEN LET out == Issues(outputSchema, result, <<>>)
       IN IF out # <<>>
          THEN ErrorResponse("Output validation error: " \o ErrorMessage(out))
          ELSE FormatOutput(result)
  ELSE IF TypeOf(result) # "string"
  THEN ErrorResponse("Handler returned non-string value, but no output schema was provided. Value: "
                      \o Stringify(result, 0, 0))
  ELSE FormatOutput(result)

\* The issues of a ZodError that the user handler itself throws.
HandlerZodIssues == <<[path |-> <<"id">>, message |-> "Invalid uuid"]>>

NoOutcome ==
  [type |-> "none", response |-> Undefined, error |-> Undefined,
   handlerCalls |-> 0]

\* Mutant: the wrapper's answer depends on the streams opened so far.
WrappedHandler_Stateful(tool, args, behaviour, result) ==
  LET inIssues == Issues(tool.schema, args, <<>>)
  IN IF inIssues # <<>>
     THEN [NoOutcome EXCEPT !.type = "return",
             !.response = ErrorResponse("Input validation error: "
                                          \o ErrorMessage(inIssues))]
     ELSE IF behaviour = "throwsError"
     THEN [NoOutcome EXCEPT !.type = "throw", !.handlerCalls = 1,
             !.error = result]
     ELSE IF behaviour = "throwsZodError"
     THEN [NoOutcome EXCEPT !.type = "return", !.handlerCalls = 1,
             !.response = ErrorResponse("Input validation error: "
                                          \o ErrorMessage(HandlerZodIssues))]
     ELSE [NoOutcome EXCEPT !.type = "return", !.handlerCalls = 1,
             !.response = IF Len(transports) > 1
                          THEN TextResponse(ToString(Len(transports)))
                          ELSE AfterHandler(tool.outputSchema, result)]

\* The handler of the tool mcpTool returns, called with args; behaviour is
\* what the user handler does once called: it returns result, throws result
\* (a value that is no ZodError), or throws a ZodError.  The outcome tells
\* whether the wrapper returned or threw, the response returned or the error
\* thrown, and how often the user handler was called.
\* Mutant: the catch block turns every failure into an error response.
WrappedHandler_Swallow(tool, args, behaviour, result) ==
  LET inIssues == Issues(tool.schema, args, <<>>)
  IN IF inIssues # <<>>
     THEN [NoOutcome EXCEPT !.type = "return",
             !.response = ErrorResponse("Input validation error: "
                                          \o ErrorMessage(inIssues))]
     ELSE IF behaviour = "throwsError"
     THEN [NoOutcome EXCEPT !.type = "return", !.handlerCalls = 1,
             !.response = ErrorResponse("Error: " \o Stringify(result, 0, 0))]
     ELSE IF behaviour = "throwsZodError"
     THEN [NoOutcome EXCEPT !.type = "return", !.handlerCalls = 1,
             !.response = ErrorResponse("Input validation error: "
                                          \o ErrorMessage(HandlerZodIssues))]
     ELSE [NoOutcome EXCEPT !.type = "return", !.handlerCalls = 1,
             !.response = AfterHandler(tool.outputSchema, result)]

WrappedHandler(tool, args, behaviour, result) ==
  LET inIssues == Issues(tool.schema, args, <<>>)
  IN IF inIssues # <<>>
     THEN [NoOutcome EXCEPT !.type = "return",
             !.response = ErrorResponse("Input validation error: "
                                          \o ErrorMessage(inIssues))]
     ELSE IF behaviour = "throwsError"
     THEN [NoOutcome EXCEPT !.type = "throw", !.handlerCalls = 1,
             !.error = result]
     ELSE IF behaviour = "throwsZodError"
     THEN [NoOutcome EXCEPT !.type = "return", !.handlerCalls = 1,
             !.response = ErrorResponse("Input validation error: "
                                          \o ErrorMessage(HandlerZodIssues))]
     ELSE [NoOutcome EXCEPT !.type = "return", !.handlerCalls = 1,
             !.response = AfterHandler(tool.outputSchema, result)]

\* The tools invoked: one input schema, and the output schema absent,
\* z.any(), z.string(), or an object schema.
InputSchema ==
  ZObject(<<ZField("location", FALSE, ZString),
            ZField("days", TRUE, ZNumber),
            ZField("address", TRUE, ZObject(<<ZField("city", FALSE, ZString)>>))>>)
WeatherSchema ==
  ZObject(<<ZField("temperature", FALSE, ZNumber),
            ZField("condition", FALSE, ZString)>>)
OutputSchemas == {NoSchema, ZAny, ZString, WeatherSchema}
McpTools == {[schema |-> InputSchema, outputSchema |-> o] : o \in OutputSchemas}

\* Argument payloads.  With each goes what is known of it beforehand:
\* whether it conforms to InputSchema, and the fields that do not, each as
\* "path: message", comma-separated.
ArgsCases ==
  << [args |-> Obj(<<Field("location", Str("Paris"))>>),
      valid |-> TRUE, failing |-> ""],
     [args |-> Obj(<<Field("location", Str("Paris")), Field("days", Num("3")),
                     Field("address", Obj(<<Field("city", Str("Paris"))>>))>>),
      valid |-> TRUE, failing |-> ""],
     [args |-> Obj(<<Field("location", Str("Paris")), Field("units", Str("C"))>>),
      valid |-> TRUE, failing |-> ""],
     [args |-> Obj(<<>>),
      valid |-> FALSE, failing |-> "location: Required"],
     [args |-> Obj(<<Field("location", Num("5"))>>),
      valid |-> FALSE, failing |-> "location: Expected string, received number"],
     [args |-> Obj(<<Field("location", Num("5")), Field("days", Str("3"))>>),
      valid |-> FALSE,
      failing |-> "location: Expected string, received number, days: Expected number, received string"],
     [args |-> Obj(<<Field("location", Str("Paris")),
                     Field("address", Obj(<<Field("city", Num("7"))>>))>>),
      valid |-> FALSE,
      failing |-> "address.city: Expected string, received number"],
     [args |-> Obj(<<Field("days", Str("3")), Field("address", Obj(<<>>))>>),
      valid |-> FALSE,
      failing |-> "location: Required, days: Expected number, received string, address.city: Required"],
     [args |-> Str("Paris"),
      valid |-> FALSE, failing |-> ": Expected object, received string"] >>

\* Values a user handler returns.  With each goes what JavaScript gives for
\* it: JSON.stringify(v, null, 2), JSON.stringify(v) and String(v) as they
\* read inside a template string.
ReturnCases ==
  << [value |-> Str("sunny"), indented |-> "\"sunny\"",
      compact |-> "\"sunny\"", text |-> "sunny"],
     [value |-> Str(""), indented |-> "\"\"", compact |-> "\"\"", text |-> ""],
     [value |-> Num("72"), indented |-> "72", compact |-> "72", text |-> "72"],
     [value |-> Num("0"), indented |-> "0", compact |-> "0", text |-> "0"],
     [value |-> Bool("true"), indented |-> "true", compact |-> "true",
      text |-> "true"],
     [value |-> Bool("false"), indented |-> "false", compact |-> "false",
      text |-> "false"],
     [value |-> Null, indented |-> "null", compact |-> "null", text |-> "null"],
     [value |-> Undefined, indented |-> "undefined", compact |-> "undefined",
      text |-> "undefined"],
     [value |-> Obj(<<>>), indented |-> "{}", compact |-> "{}",
      text |-> "[object Object]"],
     [value |-> Obj(<<Field("temperature", Num("72")),
                      Field("condition", Str("sunny"))>>),
      indented |-> "{\n  \"temperature\": 72,\n  \"condition\": \"sunny\"\n}",
      compact |-> "{\"temperature\":72,\"condition\":\"sunny\"}",
      text |-> "[object Object]"],
     [value |-> Obj(<<Field("main", Obj(<<Field("temp", Num("72"))>>))>>),
      indented |-> "{\n  \"main\": {\n    \"temp\": 72\n  }\n}",
      compact |-> "{\"main\":{\"temp\":72}}",
      text |-> "[object Object]"],
     [value |-> Obj(<<Field("content", Str("hi"))>>),
      indented |-> "{\n  \"content\": \"hi\"\n}",
      compact |-> "{\"content\":\"hi\"}",
      text |-> "[object Object]"],
     [value |-> Arr(<<>>), indented |-> "[]", compact |-> "[]", text |-> ""],
     [value |-> Arr(<<Num("1"), Str("a")>>),
      indented |-> "[\n  1,\n  \"a\"\n]", compact |-> "[1,\"a\"]",
      text |-> "1,a"],
     [value |-> TextResponse("hi"),
      indented |-> "{\n  \"content\": [\n    {\n      \"type\": \"text\",\n      \"text\": \"hi\"\n    }\n  ]\n}",
      compact |-> "{\"content\":[{\"type\":\"text\",\"text\":\"hi\"}]}",
      text |-> "[object Object]"],
     [value |-> ErrorResponse("denied"),
      indented |-> "{\n  \"content\": [\n    {\n      \"type\": \"text\",\n      \"text\": \"denied\"\n    }\n  ],\n  \"isError\": true\n}",
      compact |-> "{\"content\":[{\"type\":\"text\",\"text\":\"denied\"}],\"isError\":true}",
      text |-> "[object Object]"],
     [value |-> Obj(<<Field("content", Arr(<<>>))>>),
      indented |-> "{\n  \"content\": []\n}",
      compact |-> "{\"content\":[]}",
      text |-> "[object Object]"] >>

\* Values a user handler throws that are no ZodError: an Error, a string,
\* undefined.
UserErrors ==
  << Obj(<<Field("name", Str("Error")), Field("message", Str("Unauthorized"))>>),
     Str("boom"),
     Undefined >>

\* Most repetitions of one call considered.
MaxRepeats == 2

\* What the user handler does when called.
UserBehaviours == {"returns", "throwsError", "throwsZodError"}

\* The value the user handler returns or throws: the r-th of its kind.
HandlerValue(b, r) ==
  IF b = "throwsError" THEN UserErrors[r] ELSE ReturnCases[r].value
HandlerValues(b) ==
  IF b = "returns" THEN 1..Len(ReturnCases)
  ELSE IF b = "throwsError" THEN 1..Len(UserErrors)
  ELSE {1}

\* zodToJsonSchema(schema, { target: 'jsonSchema7', $refStrategy: 'none' }):
\* the JSON Schema of the zod schema, with the $schema meta-property at the
\* top level only.
RECURSIVE JsonSchemaOf(_)
JsonSchemaOf(schema) ==
  IF schema.kind = "object"
  THEN LET required == SelectSeq(schema.shape, LAMBDA f : ~f.optional)
       IN Obj(<<Field("type", Str("object")),
                Field("properties",
                  Obj([i \in 1..Len(schema.shape) |->
                         Field(schema.shape[i].key,
                               JsonSchemaOf(schema.shape[i].schema))]))>>
              \o (IF Len(required) = 0 THEN <<>>
                  ELSE <<Field("required",
                           Arr([i \in 1..Len(required) |->
                                  Str(required[i].key)]))>>)
              \o <<Field("additionalProperties", Bool("false"))>>)
  ELSE IF schema.kind = "any" THEN Obj(<<>>)
  ELSE Obj(<<Field("type", Str(schema.kind))>>)

ZodToJsonSchema(schema) ==
  Obj(<<Field("$schema", Str("http://json-schema.org/draft-07/schema#"))>>
      \o JsonSchemaOf(schema).entries)

\* Mutant: the property is left in place.
DeleteProperty_Keep(obj, key) == obj

\* delete obj[key]
DeleteProperty(obj, key) ==
  Obj(SelectSeq(obj.entries, LAMBDA e : e.key # key))

\* obj[key] = val on an object
AssignProperty(obj, key, val) ==
  IF HasKey(obj, key)
  THEN Obj([i \in 1..Len(obj.entries) |->
              IF obj.entries[i].key = key THEN Field(key, val)
              ELSE obj.entries[i]])
  ELSE Obj(Append(obj.entries, Field(key, val)))

\* The inputSchema of the tool mcpTool returns: the converted input schema
\* without $schema, with the converted output schema under x-output-schema
\* when an output schema was given.
EnhancedInputSchema(tool) ==
  LET inputJsonSchema == DeleteProperty(ZodToJsonSchema(tool.schema), "$schema")
      enhanced == Obj(inputJsonSchema.entries)
  IN IF tool.outputSchema.kind # "none"
     THEN AssignProperty(enhanced, "x-output-schema",
            DeleteProperty(ZodToJsonSchema(tool.outputSchema), "$schema"))
     ELSE enhanced

\* Input schemas given to mcpTool when its published schema is examined: an
\* object with required and optional fields, a non-object schema, any, and
\* an object with a field that is itself named $schema.
PublishedTools ==
  {[schema |-> i, outputSchema |-> o] :
     i \in {InputSchema, ZString, ZAny,
            ZObject(<<ZField("$schema", TRUE, ZString),
                      ZField("location", FALSE, ZString)>>)},
     o \in OutputSchemas}

IdleWrap ==
  [phase |-> "idle", tool |-> [schema |-> InputSchema, outputSchema |-> NoSchema],
   argsCase |-> 1, behaviour |-> "returns", returnCase |-> 1,
   outcome |-> NoOutcome, repeats |-> 0, again |-> NoOutcome]

----------------------------------------------------------------------------
\* The tool registry: the constructor's validation loop, the request
\* handlers installed by setupRequestHandlers, and the tools/call handler.

\* Longest options.tools list considered.
MaxTools == 2

\* The one key whose assignment on a plain object does not create an own
\* property: obj['__proto__'] = v sets the prototype of obj.
ProtoKey == "__proto__"

\* Names the tool specifications carry, and names a tools/call can ask for.
ToolNames == {"get_weather", "calculate_sum", ProtoKey} \cup ObjectPrototypeKeys
RequestedNames == ToolNames \cup {"no_such_tool"}

\* impl.inputSchema as given: not given, a schema of type 'object', or a
\* schema of another type (which ToolSchema rejects).
GivenSchemas == {"absent", "object", "string"}

ToolImpls == [name : ToolNames, inputSchema : GivenSchemas]
ToolLists == UNION {[1..n -> ToolImpls] : n \in 0..MaxTools}

\* The definition built from one specification.
ToolDefinition(impl) ==
  [name |-> impl.name,
   inputSchema |-> IF impl.inputSchema = "absent" THEN "object"
                   ELSE impl.inputSchema]

\* ToolSchema.parse(toolDefinition) returns (does not throw).
ToolSchemaAccepts(def) == def.inputSchema = "object"

\* A plain JavaScript object: its own properties (name -> index of the
\* specification whose definition is stored) and its prototype (0 for
\* Object.prototype, else the index of the definition that became it).
EmptyObject == [own |-> [n \in {} |-> 0], proto |-> 0]

\* obj[key] = value
SetProperty(obj, key, i) ==
  IF key = ProtoKey THEN [obj EXCEPT !.proto = i]
  ELSE [obj EXCEPT !.own = [n \in DOMAIN obj.own \cup {key} |->
                              IF n = key THEN i ELSE obj.own[n]]]

\* if (obj[key]): an own property, the prototype itself under '__proto__',
\* or a property inherited from Object.prototype.
HasTruthyProperty(obj, key) ==
  \/ key \in DOMAIN obj.own
  \/ key = ProtoKey
  \/ key \in ObjectPrototypeKeys

\* Object.values(obj): the own properties only (as a set; order dropped).
ObjectValues(obj) == {obj.own[n] : n \in DOMAIN obj.own}

\* options.tools.forEach(...): a definition that passes is stored under its
\* name, one that fails is logged and skipped.
RECURSIVE ValidateTools(_, _, _)
ValidateTools(tools, i, defs) ==
  IF i > Len(tools) THEN defs
  ELSE ValidateTools(tools, i + 1,
         IF ToolSchemaAccepts(ToolDefinition(tools[i]))
         THEN SetProperty(defs, tools[i].name, i)
         ELSE defs)

\* toolHandlerMap (a Map): name -> index of the specification whose handler
\* is kept, set for every specification whose name reads truthy in defs.
RECURSIVE BuildHandlerMap(_, _, _, _)
BuildHandlerMap(tools, defs, i, map) ==
  IF i > Len(tools) THEN map
  ELSE BuildHandlerMap(tools, defs, i + 1,
         IF HasTruthyProperty(defs, tools[i].name)
         THEN [n \in DOMAIN map \cup {tools[i].name} |->
                 IF n = tools[i].name THEN i ELSE map[n]]
         ELSE map)

\* Endpoint strings are sequences of characters, so that their first and
\* last characters can be looked at.  MaxLen bounds the endpoints given to
\* the constructor.
MaxLen == 3
PathSeparator == "/"
Endpoints ==
  UNION {[1..n -> {PathSeparator, "m"}] : n \in 0..MaxLen}

\* s.startsWith('/'), s.endsWith('/')
StartsWithSlash(s) == Len(s) > 0 /\ s[1] = PathSeparator
EndsWithSlash(s) == Len(s) > 0 /\ s[Len(s)] = PathSeparator

\* The constructor's two assignments to this.endpoint.
NormalizeEndpoint(endpoint) ==
  LET prefixed == IF StartsWithSlash(endpoint) THEN endpoint
                  ELSE <<PathSeparator>> \o endpoint
  IN IF EndsWithSlash(prefixed) THEN SubSeq(prefixed, 1, Len(prefixed) - 1)
     ELSE prefixed

\* options.debug ?? false, with the flag given as "true", "false" or absent.
NullishOrFalse(flag) == IF flag = Absent THEN FALSE ELSE flag = "true"

\* given || fallback for an optional string: an absent or empty string gives
\* the fallback.
OrDefault(given, fallback) ==
  IF given = Absent \/ given = "" THEN fallback ELSE given

\* The client before and after new MCPClient(options); options has the
\* fields endpoint, tools, serverName, serverVersion and debug.
UnbuiltClient(options) ==
  [options |-> options, tools |-> options.tools, built |-> FALSE,
   debug |-> FALSE, endpoint |-> <<>>, ssePath |-> "", messagePath |-> "",
   serverName |-> "", serverVersion |-> "",
   toolDefinitionsMap |-> EmptyObject,
   toolHandlerMap |-> [n \in {} |-> 0], callInstalled |-> FALSE]

NewMCPClient(options) ==
  LET defs == ValidateTools(options.tools, 1, EmptyObject)
      map == BuildHandlerMap(options.tools, defs, 1, [n \in {} |-> 0])
  IN [options |-> options, tools |-> options.tools, built |-> TRUE,
      debug |-> NullishOrFalse(options.debug),
      endpoint |-> NormalizeEndpoint(options.endpoint),
      ssePath |-> "/sse", messagePath |-> "/message",
      serverName |-> OrDefault(options.serverName, "mcp-server"),
      serverVersion |-> OrDefault(options.serverVersion, "1.0.0"),
      toolDefinitionsMap |-> defs,
      toolHandlerMap |-> map,
      callInstalled |-> (Cardinality(DOMAIN map) > 0)]


\* The names in the answer of tools/list and of getTools().
ListedNames(c) ==
  {ToolDefinition(c.tools[i]).name : i \in ObjectValues(c.toolDefinitionsMap)}

\* What a tool handler does when invoked: it returns a result (with content,
\* with isError: true, without a content field), returns nothing, or throws /
\* rejects with an Error, an Error without message, a string, or nothing
\* (throw undefined, Promise.reject()).
HandlerBehaviours ==
  {"returns", "returnsIsError", "returnsEmptyObject", "returnsUndefined",
   "throwsError", "throwsEmptyError", "throwsString", "throwsNullish"}
Throwing == {"throwsError", "throwsEmptyError", "throwsString", "throwsNullish"}

\* The message of the failure thrown (none for the last two).
ThrownMessage(b) ==
  CASE b = "throwsError" -> "Unauthorized"
    [] b = "throwsString" -> "boom"
    [] OTHER -> ""

\* `${error.message || error}` in the catch block of the tools/call handler.
CaughtText(b) ==
  CASE b = "throwsError" -> ThrownMessage(b)
    [] b = "throwsEmptyError" -> "Error"
    [] b = "throwsString" -> ThrownMessage(b)
    [] b = "returnsUndefined" ->
         "Cannot read properties of undefined (reading 'content')"
    [] OTHER -> ""

\* The tools/call request handler for a request naming toolName, the tool's
\* handler behaving as b.  type "throw": the handler itself rejects (the
\* catch block reads error.message of a null/undefined error).
ToolsCallHandler(map, toolName, b) ==
  IF toolName \notin DOMAIN map
  THEN [type |-> "return", isError |-> TRUE, ran |-> 0,
        content |-> <<"Error: Unknown tool '" \o toolName \o "'">>]
  ELSE LET h == map[toolName]
       IN CASE b = "returns" ->
                 [type |-> "return", isError |-> FALSE, ran |-> h,
                  content |-> <<"72F">>]
            [] b = "returnsIsError" ->
                 [type |-> "return", isError |-> TRUE, ran |-> h,
                  content |-> <<"Unauthorized">>]
            [] b = "returnsEmptyObject" ->
                 [type |-> "return", isError |-> FALSE, ran |-> h,
                  content |-> <<>>]
            [] b = "throwsNullish" ->
                 [type |-> "throw", isError |-> FALSE, ran |-> h,
                  content |-> <<"Cannot read properties of undefined (reading 'message')">>]
            [] OTHER ->
                 [type |-> "return", isError |-> TRUE, ran |-> h,
                  content |-> <<"Error executing tool " \o toolName \o ": "
                                 \o CaughtText(b)>>]

\* Mutant: the tools are reported only while a session is registered.
Metadata_Live(c) ==
  [endpoint |-> c.endpoint, ssePath |-> c.ssePath,
   messagePath |-> c.messagePath,
   tools |-> IF DOMAIN activeTransports = {} THEN {} ELSE ListedNames(c),
   debug |-> c.debug, serverName |-> c.serverName,
   serverVersion |-> c.serverVersion]

\* getMetadata()
Metadata(c) ==
  [endpoint |-> c.endpoint, ssePath |-> c.ssePath,
   messagePath |-> c.messagePath, tools |-> ListedNames(c),
   debug |-> c.debug, serverName |-> c.serverName,
   serverVersion |-> c.serverVersion]

NoReply ==
  [method |-> "none", name |-> "", behaviour |-> "none", kind |-> "none",
   isError |-> FALSE, content |-> <<>>, names |-> {}, ran |-> 0,
   metadata |-> [endpoint |-> <<>>, ssePath |-> "", messagePath |-> "",
                 tools |-> {}, debug |-> FALSE, serverName |-> "",
                 serverVersion |-> ""]]

\* The engine's answer to a tools/call: the result the request handler
\* returned; a JSON-RPC error when the handler rejected (InternalError) or
\* when no handler is installed for the method (MethodNotFound).
EngineToolsCall(c, toolName, b) ==
  LET base == [NoReply EXCEPT !.method = "tools/call", !.name = toolName,
                              !.behaviour = b]
  IN IF ~c.callInstalled
     THEN [base EXCEPT !.kind = "error", !.content = <<"Method not found">>]
     ELSE LET r == ToolsCallHandler(c.toolHandlerMap, toolName, b)
          IN [base EXCEPT !.kind = IF r.type = "throw" THEN "error" ELSE "result",
                          !.isError = r.isError, !.content = r.content,
                          !.ran = r.ran]

\* The answer to tools/list, and the value of getTools().
EngineToolsList(c, method) ==
  [NoReply EXCEPT !.method = method, !.kind = "result",
                  !.names = ListedNames(c)]

\* The tools/call request handler around a handler built by mcpTool: what it
\* returns to the engine for the wrapped handler's outcome (Undefined: the
\* request handler rejects, see ToolsCallHandler).
ToolsCallResult(toolName, outcome) ==
  LET r == outcome.response
      e == outcome.error
      caught == IF Truthy(Get(e, "message")) THEN Get(e, "message").lit
                ELSE IF e.kind = "object" THEN Get(e, "name").lit
                ELSE StringOf(e)
  IN IF outcome.type = "throw"
     THEN IF e.kind \in {"null", "undefined"} THEN Undefined
          ELSE ErrorResponse("Error executing tool " \o toolName \o ": " \o caught)
     ELSE Obj(<<Field("content", IF Truthy(Get(r, "content"))
                                  THEN Get(r, "content") ELSE Arr(<<>>)),
                Field("isError", IF Truthy(Get(r, "isError"))
                                  THEN Get(r, "isError") ELSE Bool("false"))>>)

\* The tool list of the instance whose sessions the session actions follow.
DefaultTools == <<[name |-> "get_weather", inputSchema |-> "object"]>>

\* The options of the README's first example: endpoint '/mcp', one tool, a
\* server name and version, no debug flag.
DefaultOptions ==
  [endpoint |-> <<"/", "m", "c", "p">>, tools |-> DefaultTools,
   serverName |-> "demo-server", serverVersion |-> "1.0.0",
   debug |-> Absent]

\* The options the constructor is given when its configuration is examined.
OptionSets ==
  {[endpoint |-> e, tools |-> DefaultTools, serverName |-> n,
    serverVersion |-> v, debug |-> d] :
     e \in Endpoints, n \in {Absent, "", "demo-server"},
     v \in {Absent, "2.0.0"}, d \in {"true", "false", Absent}}

\* The three logging helpers: logDebug and logInfo write with console.log
\* when the debug flag is set, logError writes with console.error.
LogLines(level, ats) == {[level |-> level, at |-> a] : a \in ats}
LogDebug(debug, ats) == IF debug THEN LogLines("log", ats) ELSE {}
LogInfo(debug, ats) == IF debug THEN LogLines("log", ats) ELSE {}
LogError(debug, ats) == LogLines("error", ats)

\* What the constructor of the built instance c logged.
ConstructorLogs(c) ==
  (IF \E i \in 1..Len(c.tools) : ~ToolSchemaAccepts(ToolDefinition(c.tools[i]))
   THEN LogError(c.debug, {110}) ELSE {})
  \cup LogInfo(c.debug, {133, 136})

\* What GET /sse logs, by outcome ("noId": the transport has no identifier).
OpenLogs(debug, outcome) ==
  LogDebug(debug, {333, 358}) \cup LogInfo(debug, {350, 354})
  \cup (IF outcome = "noId" THEN LogError(debug, {367})
        ELSE LogDebug(debug, {365})
             \cup (IF outcome = "connected" THEN LogDebug(debug, {394})
                   ELSE LogError(debug, {396})))

\* What the close listener and the keepalive callback log.
CloseLogs(debug) == LogDebug(debug, {386})
TickLogs(debug, tr, outcome) ==
  IF ~tr.resEnded /\ outcome = "writeThrows" THEN LogError(debug, {380})
  ELSE {}

\* What POST /message logs up to the call of handlePostMessage (st: the
\* early return taken, 0 for none; isTransport: the value looked up is a
\* transport), and what it logs once the forwarding has ended.
IntakeLogs(debug, st, isTransport) ==
  IF st = 400 THEN LogError(debug, {411})
  ELSE IF st = 404 THEN LogError(debug, {418})
  ELSE LogDebug(debug, {423, 426, 431})
       \cup (IF isTransport THEN {} ELSE LogError(debug, {440}))
ForwardLogs(debug, outcome) ==
  IF outcome = "ok" THEN LogDebug(debug, {436}) ELSE LogError(debug, {440})

\* What the tools/list and the tools/call handlers log.
ListLogs(debug, method) ==
  IF method = "tools/list" THEN LogDebug(debug, {234, 237}) ELSE {}
CallStartLogs(debug) == LogDebug(debug, {264, 285})
CallEndLogs(debug) == LogDebug(debug, {289})
CallLogs(c, toolName, b) ==
  IF ~c.callInstalled THEN {}
  ELSE IF toolName \notin DOMAIN c.toolHandlerMap
  THEN LogDebug(c.debug, {264}) \cup LogError(c.debug, {270})
  ELSE CallStartLogs(c.debug)
       \cup (IF b \in Throwing \cup {"returnsUndefined"}
             THEN LogError(c.debug, {300}) ELSE CallEndLogs(c.debug))

\* Several instances in one application (multiple-mcp-clients.ts): the
\* options of the weather and of the calculator instance.
InstanceOptions ==
  <<[endpoint |-> <<"/", "w">>,
     tools |-> <<[name |-> "get_weather", inputSchema |-> "object"]>>,
     serverName |-> "weather-mcp-server", serverVersion |-> "1.0.0",
     debug |-> Absent],
    [endpoint |-> <<"/", "c">>,
     tools |-> <<[name |-> "calculate", inputSchema |-> "object"]>>,
     serverName |-> "calculator-mcp-server", serverVersion |-> "1.0.0",
     debug |-> Absent]>>
InstanceIds == DOMAIN InstanceOptions

\* No request answered yet; no instance built.
NoAnswer == [kind |-> "none", instance |-> 0, q |-> "", status |-> 0,
             names |-> {}]
NoInstances == [list |-> <<>>, sessions |-> <<>>, answer |-> NoAnswer]

\* Each new MCPClient(options) has its own activeTransports = {} (a field
\* initializer) and its own toolDefinitionsMap.
NewInstances ==
  [list |-> [i \in InstanceIds |->
               [client |-> NewMCPClient(InstanceOptions[i]),
                activeTransports |-> [x \in {} |-> NoTransport]]],
   sessions |-> <<>>, answer |-> NoAnswer]

\* Mutant: the registry is shared by the instances of the module.
OwnRegistry_Shared(list, i) ==
  [x \in UNION {DOMAIN list[j].activeTransports : j \in DOMAIN list} |->
     LET j == CHOOSE k \in DOMAIN list : x \in DOMAIN list[k].activeTransports
     IN list[j].activeTransports[x]]

\* this.activeTransports inside a route handler of instance i.
OwnRegistry(list, i) == list[i].activeTransports

----------------------------------------------------------------------------
Init ==
  /\ activeTransports = [x \in {} |-> NoTransport]
  /\ transports = <<>>
  /\ serverTransport = NoTransport
  /\ posts = <<>>
  /\ engineLog = <<>>
  /\ calls = {}
  /\ client = NewMCPClient(DefaultOptions)
  /\ reply = NoReply
  /\ wrap = IdleWrap
  /\ instances = NoInstances
  /\ console = ConstructorLogs(client)

\* GET /sse.  Registration, the keepalive timer, the close listener and the
\* synchronous part of server.connect() run in one event-loop turn.
\* pingInterval tells whether the 30 s timer is scheduled; the comment frames
\* its callback writes carry no protocol message and are not recorded in
\* frames.  outcome: "connected", or server.connect() rejects with the
\* response head not yet sent ("failedUnsent") or already sent ("failedSent").
\* wroteHead tells whether transport.start() wrote the head (200).

\* Mutant: the catch block answers 500 whatever was sent.
CatchConnectStatus_Always500(wroteHead) == 500

\* The status of the response after the catch block of server.connect():
\* if (!res.headersSent) res.status(500).send(..); else the 200 stays.
CatchConnectStatus(wroteHead) == IF ~wroteHead THEN 500 ELSE 200

\* Mutant: the engine is connected first, the transport registered after.
RegistryAtConnect_Late(reg, sid, t) == reg

\* this.activeTransports at the call of server.connect(transport), which
\* starts the transport and so sends the client its session identifier: the
\* entry was written at line 362, before.
RegistryAtConnect(reg, sid, t) == Register(reg, sid, t)

OpenStream(sid, outcome) ==
  /\ Len(transports) < MaxStreams
  /\ sid \in NewSessionId(UsedIds)
  /\ LET t == Len(transports) + 1
         ok == outcome = "connected"
         atConnect == RegistryAtConnect(activeTransports, sid, t)
         registered == Register(atConnect, sid, t)
     IN /\ transports' = Append(transports,
             [sessionId |-> sid,
              sseResponse |-> ok,
              pingInterval |-> ok,
              reqOpen |-> TRUE,
              resEnded |-> (outcome = "failedUnsent"),
              status |-> IF ok THEN 200
                         ELSE CatchConnectStatus(outcome = "failedSent"),
              wroteHead |-> (outcome # "failedUnsent"),
              registeredFirst |-> LookupTransport(atConnect, sid) = t,
              frames |-> {},
              pings |-> 0])
        /\ activeTransports' =
             IF ok THEN registered ELSE Unregister(registered, sid)
        /\ serverTransport' = ServerConnect(serverTransport, t)
  /\ UNCHANGED <<posts, engineLog, calls>>
  /\ console' = console \cup OpenLogs(client.debug, outcome)
  /\ UNCHANGED toolVars

\* transport.sessionId when the transport has none.
NoSessionId == ""

\* Mutant: the transport is registered whatever its identifier is.
RegisterIfId_Always(reg, sid, t) == Register(reg, sid, t)

\* if (sessionId) { this.activeTransports[sessionId] = transport }
RegisterIfId(reg, sid, t) ==
  IF sid # NoSessionId THEN Register(reg, sid, t) ELSE reg

\* GET /sse when the new transport has no session identifier: the else
\* branch answers 500 and returns before the timer, the close listener and
\* server.connect().  reqOpen tells whether a close listener is waiting for
\* the client's disconnect: none is here.
OpenStreamNoId ==
  /\ Len(transports) < MaxStreams
  /\ LET t == Len(transports) + 1
     IN /\ transports' = Append(transports,
             [sessionId |-> NoSessionId,
              sseResponse |-> FALSE,
              pingInterval |-> FALSE,
              reqOpen |-> FALSE,
              resEnded |-> TRUE,
              status |-> 500,
              wroteHead |-> FALSE,
              registeredFirst |-> FALSE,
              frames |-> {},
              pings |-> 0])
        /\ activeTransports' = RegisterIfId(activeTransports, NoSessionId, t)
  /\ UNCHANGED <<serverTransport, posts, engineLog, calls>>
  /\ console' = console \cup OpenLogs(client.debug, "noId")
  /\ UNCHANGED toolVars

\* Mutant: the close listener leaves the keepalive timer scheduled.
Disconnected_KeepTimer(tr) ==
  [tr EXCEPT !.reqOpen = FALSE,
             !.resEnded = @ \/ tr.sseResponse,
             !.sseResponse = FALSE]

\* What the close listener does to the stream: clearInterval(pingInterval)
\* and transport.close(), which ends the response the transport started.
Disconnected(tr) ==
  [tr EXCEPT !.reqOpen = FALSE,
             !.pingInterval = FALSE,
             !.resEnded = @ \/ tr.sseResponse,
             !.sseResponse = FALSE]

\* Keepalive frames written to one stream, at most.
MaxPings == 2

\* Mutant: the callback writes without looking at res.writableEnded.
Ticked_WriteAlways(tr, outcome) ==
  IF outcome = "written" THEN [tr EXCEPT !.pings = @ + 1]
  ELSE [tr EXCEPT !.pingInterval = FALSE]

\* The body of the setInterval callback: it writes ': ping' when the
\* response has not ended and cancels the timer when it has; a write that
\* throws cancels the timer too.
Ticked(tr, outcome) ==
  IF tr.resEnded THEN [tr EXCEPT !.pingInterval = FALSE]
  ELSE IF outcome = "written" THEN [tr EXCEPT !.pings = @ + 1]
  ELSE [tr EXCEPT !.pingInterval = FALSE]

\* One run of the setInterval callback of stream t.
PingTick(t, outcome) ==
  /\ t \in Streams
  /\ transports[t].pingInterval
  /\ outcome = "written" => transports[t].pings < MaxPings
  /\ transports' = [transports EXCEPT ![t] = Ticked(transports[t], outcome)]
  /\ UNCHANGED <<activeTransports, serverTransport, posts, engineLog, calls>>
  /\ console' = console \cup TickLogs(client.debug, transports[t], outcome)
  /\ UNCHANGED toolVars

\* The response of stream t is ended by code other than the close listener
\* (res.end() by the application or by a server-side close) while the
\* client stays connected.
ResponseEnds(t) ==
  /\ t \in Streams
  /\ transports[t].reqOpen
  /\ ~transports[t].resEnded
  /\ transports' = [transports EXCEPT ![t].resEnded = TRUE]
  /\ UNCHANGED <<activeTransports, serverTransport, posts, engineLog, calls>>
  /\ UNCHANGED console
  /\ UNCHANGED toolVars

\* req.on('close'): the client of stream t disconnects.
ClientDisconnect(t) ==
  /\ t \in Streams
  /\ transports[t].reqOpen
  /\ transports' = [transports EXCEPT ![t] = Disconnected(transports[t])]
  /\ serverTransport' = ServerOnClose(serverTransport, t)
  /\ activeTransports' = Unregister(activeTransports, transports[t].sessionId)
  /\ UNCHANGED <<posts, engineLog, calls>>
  /\ console' = console \cup CloseLogs(client.debug)
  /\ UNCHANGED toolVars

\* Mutant: the route drops the entry it looked up.
RegistryAfterPost_Evict(reg, q) == Unregister(reg, q)

\* this.activeTransports after the POST /message handler ran for
\* sessionId=q: the handler reads the entry (line 416) and writes none.
RegistryAfterPost(reg, q) == reg

\* POST /message is received: the checks, then requestStorage.run(headers, ..)
\* starts transport.handlePostMessage(), which awaits the request body.  When
\* the value looked up is no transport, the call of handlePostMessage throws
\* a TypeError inside run(), which the route's catch block handles.
PostReceive(q) ==
  /\ Len(posts) < MaxPosts
  /\ LET st == IntakeStatus(q, activeTransports)
         h == HeadersOf(Len(posts) + 1)
         found == LookupTransport(activeTransports, q)
         entered == [sessionId |-> q, headers |-> h, pc |-> "reading",
                     status |-> 0, sends |-> 0, sentBy |-> "none",
                     fwd |-> "none", escaped |-> FALSE, store |-> h,
                     transport |-> found]
     IN posts' = Append(posts,
          IF st # 0
          THEN [sessionId |-> q, headers |-> h, pc |-> "done", status |-> st,
                sends |-> 1, sentBy |-> "route", fwd |-> "none",
                escaped |-> FALSE, store |-> NoStore,
                transport |-> NoTransport]
          ELSE IF found \notin Streams
          THEN AfterForwardError([entered EXCEPT !.fwd = "notATransport"])
          ELSE entered)
  /\ activeTransports' = RegistryAfterPost(activeTransports, q)
  /\ UNCHANGED <<transports, serverTransport, engineLog, calls>>
  /\ console' = console \cup
       IntakeLogs(client.debug, IntakeStatus(q, activeTransports),
                  LookupTransport(activeTransports, q) \in Streams)
  /\ UNCHANGED toolVars

\* The forwarding of post p goes on.  "ok": the body is read, the message is
\* handed to the engine, whose tools/call handler builds the context and
\* invokes the tool, and the transport answers 202.  "throwSent" /
\* "throwUnsent": handlePostMessage rejects, having answered (500) or not.
PostForward(p, outcome) ==
  /\ p \in Posts
  /\ posts[p].pc = "reading"
  /\ IF outcome = "ok"
     THEN /\ posts' = [posts EXCEPT ![p].pc = "running", ![p].fwd = "ok",
                         ![p].status = 202, ![p].sends = 1,
                         ![p].sentBy = "transport"]
          /\ engineLog' = Append(engineLog, p)
          /\ calls' = calls \cup
               {[chain |-> p, headers |-> ToolContext(GetStore(posts, p)).headers,
                 afterPost |-> FALSE]}
     ELSE /\ posts' = [posts EXCEPT ![p] = AfterForwardError(
                 IF outcome = "throwSent"
                 THEN [posts[p] EXCEPT !.fwd = outcome, !.status = 500,
                         !.sends = 1, !.sentBy = "transport"]
                 ELSE [posts[p] EXCEPT !.fwd = outcome])]
          /\ UNCHANGED <<engineLog, calls>>
  /\ UNCHANGED <<activeTransports, transports, serverTransport>>
  /\ console' = console \cup ForwardLogs(client.debug, outcome)
                 \cup (IF outcome = "ok" THEN CallStartLogs(client.debug) ELSE {})
  /\ UNCHANGED toolVars

\* The tool handler started for post p settles; the engine sends the result.
HandlerDone(p) ==
  /\ p \in Posts
  /\ posts[p].pc = "running"
  /\ posts' = [posts EXCEPT ![p].pc = "done"]
  /\ transports' = SendResponse(transports, serverTransport, p)
  /\ UNCHANGED <<activeTransports, serverTransport, engineLog, calls>>
  /\ console' = console \cup CallEndLogs(client.debug)
  /\ UNCHANGED toolVars

\* The tools/call handler is reached by a request that no POST /message
\* carried, so outside every requestStorage.run() scope; only the invocation
\* is recorded.  afterPost tells whether the processing of some posted message
\* had already ended by then.
CallOutsideScope ==
  /\ \A c \in calls : c.chain # NoChain
  /\ calls' = calls \cup
       {[chain |-> NoChain,
         headers |-> ToolContext(GetStore(posts, NoChain)).headers,
         afterPost |-> \E p \in Posts : posts[p].pc = "done" /\ posts[p].fwd = "ok"]}
  /\ UNCHANGED <<activeTransports, transports, serverTransport, posts, engineLog>>
  /\ console' = console \cup CallStartLogs(client.debug)
  /\ UNCHANGED toolVars

\* The program with its collaborators working: every connect and every
\* forwarding succeeds.
Next ==
  \/ \E sid \in SessionIds : OpenStream(sid, "connected")
  \/ \E t \in Streams : ClientDisconnect(t)
  \/ \E q \in QueryValues : PostReceive(q)
  \/ \E p \in Posts : PostForward(p, "ok")
  \/ \E p \in Posts : HandlerDone(p)

Spec == Init /\ [][Next]_vars

\* The failures the two route handlers catch: server.connect() rejects,
\* transport.handlePostMessage() rejects.
ConnectFails ==
  \E sid \in SessionIds :
    \E outcome \in {"failedUnsent", "failedSent"} : OpenStream(sid, outcome)

ForwardFails ==
  \E p \in Posts :
    \E outcome \in {"throwSent", "throwUnsent"} : PostForward(p, outcome)

NextFaults == Next \/ ConnectFails \/ ForwardFails

SpecFaults == Init /\ [][NextFaults]_vars

\* The streams and their keepalive timers, without the posted messages.
NextKeepalive ==
  \/ \E sid \in SessionIds : OpenStream(sid, "connected")
  \/ ConnectFails
  \/ \E t \in Streams : ClientDisconnect(t)
  \/ \E t \in Streams : \E outcome \in {"written", "writeThrows"} :
       PingTick(t, outcome)
  \/ \E t \in Streams : ResponseEnds(t)

SpecKeepalive == Init /\ [][NextKeepalive]_vars

\* The program with a transport class whose sessionId can be empty.
NextNoId == Next \/ OpenStreamNoId

SpecNoId == Init /\ [][NextNoId]_vars

\* The same program in an environment that can also reach the engine's
\* tools/call handler without going through POST /message.
NextOutside == NextFaults \/ CallOutsideScope

SpecOutside == Init /\ [][NextOutside]_vars

\* The same program under the scheduling of the Node.js event loop: a
\* forwarding whose body has arrived goes on, and a handler that can settle
\* does settle.  Nothing is assumed of the handler of the first message
\* posted (SlowPost): it may stay pending for ever.
SlowPost == 1

Fairness ==
  \A p \in 1..MaxPosts :
    /\ WF_vars(PostForward(p, "ok"))
    /\ (p # SlowPost => WF_vars(HandlerDone(p)))

SpecLive == Spec /\ Fairness

\* The tool registry on its own: the constructor is given any list of tool
\* specifications; the built instance is then asked for its tools and asked
\* to call tools, no stream being involved.
InitRegistry ==
  /\ activeTransports = [x \in {} |-> NoTransport]
  /\ transports = <<>>
  /\ serverTransport = NoTransport
  /\ posts = <<>>
  /\ engineLog = <<>>
  /\ calls = {}
  /\ \E tools \in ToolLists :
       client = UnbuiltClient([DefaultOptions EXCEPT !.tools = tools])
  /\ reply = NoReply
  /\ wrap = IdleWrap
  /\ instances = NoInstances
  /\ console = {}

\* new MCPClient(options)
Construct ==
  /\ ~client.built
  /\ client' = NewMCPClient(client.options)
  /\ UNCHANGED <<reply, wrap, instances>>
  /\ console' = console \cup ConstructorLogs(NewMCPClient(client.options))
  /\ UNCHANGED sessionVars

\* A tools/list request, or a call of getTools().
ListTools(method) ==
  /\ client.built
  /\ reply' = EngineToolsList(client, method)
  /\ UNCHANGED <<client, wrap, instances>>
  /\ console' = console \cup ListLogs(client.debug, method)
  /\ UNCHANGED sessionVars

\* A tools/call request naming toolName; b is what the tool's handler does
\* if it is invoked.
CallTool(toolName, b) ==
  /\ client.built
  /\ reply' = EngineToolsCall(client, toolName, b)
  /\ UNCHANGED <<client, wrap, instances>>
  /\ console' = console \cup CallLogs(client, toolName, b)
  /\ UNCHANGED sessionVars

NextRegistry ==
  \/ Construct
  \/ \E method \in {"tools/list", "getTools"} : ListTools(method)
  \/ \E toolName \in RequestedNames : \E b \in HandlerBehaviours :
       CallTool(toolName, b)

SpecRegistry == InitRegistry /\ [][NextRegistry]_vars

\* The configuration on its own: the constructor is given any options, and
\* the built instance is asked for its base path.
InitConfig ==
  /\ activeTransports = [x \in {} |-> NoTransport]
  /\ transports = <<>>
  /\ serverTransport = NoTransport
  /\ posts = <<>>
  /\ engineLog = <<>>
  /\ calls = {}
  /\ \E options \in OptionSets : client = UnbuiltClient(options)
  /\ reply = NoReply
  /\ wrap = IdleWrap
  /\ instances = NoInstances
  /\ console = {}

\* A call of getEndpoint().
AskEndpoint ==
  /\ client.built
  /\ reply' = [NoReply EXCEPT !.method = "getEndpoint", !.kind = "result",
                              !.content = client.endpoint]
  /\ UNCHANGED <<client, wrap, instances>>
  /\ UNCHANGED console
  /\ UNCHANGED sessionVars

NextConfig ==
  \/ Construct
  \/ AskEndpoint

SpecConfig == InitConfig /\ [][NextConfig]_vars

\* A call of getMetadata().
GetMetadata ==
  /\ client.built
  /\ reply' = [NoReply EXCEPT !.method = "getMetadata", !.kind = "result",
                              !.metadata = Metadata(client)]
  /\ UNCHANGED <<client, wrap, instances>>
  /\ UNCHANGED console
  /\ UNCHANGED sessionVars

\* The running program, asked for its metadata and its tools at any moment
\* between the stream opens, the disconnects, the posted messages and the
\* tool calls.
NextObserve ==
  \/ Next
  \/ GetMetadata
  \/ ListTools("tools/list")

SpecObserve == Init /\ [][NextObserve]_vars

\* Several instances side by side.  Of GET /sse and of the close listener
\* only the registry writes are kept here, of POST /message the two early
\* returns; the streams themselves are those of Spec.
InitInstances ==
  /\ activeTransports = [x \in {} |-> NoTransport]
  /\ transports = <<>>
  /\ serverTransport = NoTransport
  /\ posts = <<>>
  /\ engineLog = <<>>
  /\ calls = {}
  /\ client = NewMCPClient(DefaultOptions)
  /\ reply = NoReply
  /\ wrap = IdleWrap
  /\ instances = NewInstances
  /\ console = UNION {ConstructorLogs(NewInstances.list[i].client) : i \in InstanceIds}

InstanceSessions == 1..Len(instances.sessions)

\* GET /sse on instance i.
OpenOn(i, sid) ==
  /\ Len(instances.sessions) < MaxStreams
  /\ sid \in NewSessionId({instances.sessions[k].sessionId :
                              k \in InstanceSessions})
  /\ instances' = [instances EXCEPT
        !.list[i].activeTransports =
           Register(@, sid, Len(instances.sessions) + 1),
        !.sessions = Append(@, [owner |-> i, sessionId |-> sid, open |-> TRUE])]
  /\ UNCHANGED <<client, reply, wrap>>
  /\ console' = console \cup OpenLogs(instances.list[i].client.debug, "connected")
  /\ UNCHANGED sessionVars

\* req.on('close') of session k.
CloseOn(k) ==
  /\ k \in InstanceSessions
  /\ instances.sessions[k].open
  /\ instances' = [instances EXCEPT
        !.list[instances.sessions[k].owner].activeTransports =
           Unregister(@, instances.sessions[k].sessionId),
        !.sessions[k].open = FALSE]
  /\ UNCHANGED <<client, reply, wrap>>
  /\ console' = console \cup
       CloseLogs(instances.list[instances.sessions[k].owner].client.debug)
  /\ UNCHANGED sessionVars

\* POST /message?sessionId=q on instance i: 400, 404, or 0 = the message is
\* forwarded to the transport found.
PostOn(i, q) ==
  /\ instances' = [instances EXCEPT
        !.answer = [NoAnswer EXCEPT !.kind = "post", !.instance = i, !.q = q,
                      !.status = IntakeStatus(q, OwnRegistry(instances.list, i))]]
  /\ UNCHANGED <<client, reply, wrap>>
  /\ console' = console \cup
       LET st == IntakeStatus(q, OwnRegistry(instances.list, i))
       IN IF st = 0 THEN {} ELSE IntakeLogs(instances.list[i].client.debug, st, TRUE)
  /\ UNCHANGED sessionVars

\* tools/list on instance i.
ListOn(i) ==
  /\ instances' = [instances EXCEPT
        !.answer = [NoAnswer EXCEPT !.kind = "list", !.instance = i,
                      !.names = ListedNames(instances.list[i].client)]]
  /\ UNCHANGED <<client, reply, wrap>>
  /\ console' = console \cup ListLogs(instances.list[i].client.debug, "tools/list")
  /\ UNCHANGED sessionVars

NextInstances ==
  \/ \E i \in InstanceIds : \E sid \in SessionIds : OpenOn(i, sid)
  \/ \E k \in InstanceSessions : CloseOn(k)
  \/ \E i \in InstanceIds : \E q \in QueryValues : PostOn(i, q)
  \/ \E i \in InstanceIds : ListOn(i)

SpecInstances == InitInstances /\ [][NextInstances]_vars

\* A handler built by mcpTool on its own: a tool, an argument payload and a
\* behaviour of the user handler are given; the wrapped handler is invoked.
InitWrap ==
  /\ activeTransports = [x \in {} |-> NoTransport]
  /\ transports = <<>>
  /\ serverTransport = NoTransport
  /\ posts = <<>>
  /\ engineLog = <<>>
  /\ calls = {}
  /\ client = NewMCPClient(DefaultOptions)
  /\ reply = NoReply
  /\ \E tool \in McpTools : \E a \in 1..Len(ArgsCases) :
       \E b \in UserBehaviours : \E r \in HandlerValues(b) :
         /\ wrap = [phase |-> "ready", tool |-> tool, argsCase |-> a,
                    behaviour |-> b, returnCase |-> r, outcome |-> NoOutcome,
                    repeats |-> 0, again |-> NoOutcome]
  /\ instances = NoInstances
  /\ console = ConstructorLogs(client)

\* await tool.handler(args, context)
Invoke ==
  /\ wrap.phase = "ready"
  /\ wrap' = [wrap EXCEPT
        !.phase = "done",
        !.outcome = WrappedHandler(wrap.tool, ArgsCases[wrap.argsCase].args,
                                   wrap.behaviour,
                                   HandlerValue(wrap.behaviour, wrap.returnCase))]
  /\ UNCHANGED <<client, reply, instances>>
  /\ UNCHANGED console
  /\ UNCHANGED sessionVars

NextWrap == Invoke

\* mcpTool on its own: a tool is built from an input schema and, possibly,
\* an output schema; its published inputSchema is read and its handler is
\* invoked.
InitPublish ==
  /\ activeTransports = [x \in {} |-> NoTransport]
  /\ transports = <<>>
  /\ serverTransport = NoTransport
  /\ posts = <<>>
  /\ engineLog = <<>>
  /\ calls = {}
  /\ client = NewMCPClient(DefaultOptions)
  /\ reply = NoReply
  /\ \E tool \in PublishedTools : \E a \in 1..Len(ArgsCases) :
       wrap = [IdleWrap EXCEPT !.phase = "ready", !.tool = tool,
                               !.argsCase = a]
  /\ instances = NoInstances
  /\ console = ConstructorLogs(client)

\* Reading tool.inputSchema of the tool mcpTool returned.
Publish ==
  /\ wrap.phase # "idle"
  /\ reply' = [NoReply EXCEPT !.method = "mcpTool", !.kind = "result",
                              !.content = EnhancedInputSchema(wrap.tool)]
  /\ UNCHANGED <<client, wrap, instances>>
  /\ UNCHANGED console
  /\ UNCHANGED sessionVars

NextPublish ==
  \/ Publish
  \/ Invoke

SpecPublish == InitPublish /\ [][NextPublish]_vars

SpecWrap == InitWrap /\ [][NextWrap]_vars

\* The same call repeated, streams being opened and closed in between; the
\* user handler is pure: it returns (or throws) the same value every time.
InvokeAgain ==
  /\ wrap.phase = "done"
  /\ wrap.repeats < MaxRepeats
  /\ wrap' = [wrap EXCEPT
        !.repeats = @ + 1,
        !.again = WrappedHandler(wrap.tool, ArgsCases[wrap.argsCase].args,
                                 wrap.behaviour,
                                 HandlerValue(wrap.behaviour, wrap.returnCase))]
  /\ UNCHANGED <<client, reply, instances>>
  /\ UNCHANGED console
  /\ UNCHANGED sessionVars

NextRepeat ==
  \/ Invoke
  \/ InvokeAgain
  \/ \E sid \in SessionIds : OpenStream(sid, "connected")
  \/ \E t \in Streams : ClientDisconnect(t)

SpecRepeat == InitWrap /\ [][NextRepeat]_vars

----------------------------------------------------------------------------
\* Vocabulary of the properties.

\* Sessions whose stream was opened (the engine connected) and whose client
\* has not disconnected.
OpenStreams == {t \in Streams : transports[t].reqOpen /\ transports[t].sseResponse}
OpenSessionIds == {transports[t].sessionId : t \in OpenStreams}

\* Post p was handed to the engine.
Delivered(p) == \E i \in 1..Len(engineLog) : engineLog[i] = p

\* The tool handler was invoked for post p.
Invoked(p) == \E c \in calls : c.chain = p

\* The step receives a new POST / opens a new stream.
NewPost == Len(posts') = Len(posts) + 1
NewStream == Len(transports') = Len(transports) + 1

\* The step is the client disconnect of stream s.
Closes(s) == transports[s].reqOpen /\ ~transports'[s].reqOpen

----------------------------------------------------------------------------
\* C1: the response to a message posted with sessionId=S is written to the
\* stream of session S (when S is still open as the handler settles) and is
\* never written to the stream of another session.
C1_ResponseOnOwnStream ==
  /\ \A t \in Streams : \A p \in transports[t].frames :
       posts[p].sessionId = transports[t].sessionId
  /\ \A p \in Posts :
       (posts[p].pc = "done" /\ posts[p].fwd = "ok"
          /\ transports[posts[p].transport].reqOpen)
       => p \in transports[posts[p].transport].frames

\* C2: the disconnect of session S leaves every other session T as it was:
\* T's registry entry, T's keepalive timer, and the engine's attachment to T
\* (so that messages posted for T afterwards are answered on T's stream).
C2_CloseLeavesOthers ==
  [][\A s \in Streams : Closes(s) =>
       \A t \in Streams \ {s} :
         /\ LookupTransport(activeTransports', transports[t].sessionId)
              = LookupTransport(activeTransports, transports[t].sessionId)
         /\ transports'[t].pingInterval = transports[t].pingInterval
         /\ (serverTransport = t => serverTransport' = t)]_vars

\* C3: a stream that opens gets an identifier that was not in the registry
\* before the open and is in it right after; when the client disconnects the
\* identifier leaves the registry and stays out, and every POST received later
\* with that identifier is answered 404.
C3_SessionLifecycle ==
  [][/\ (NewStream /\ transports'[Len(transports')].sseResponse) =>
          LET sid == transports'[Len(transports')].sessionId
          IN /\ sid \notin DOMAIN activeTransports
             /\ sid \in DOMAIN activeTransports'
             /\ activeTransports'[sid] = Len(transports')
     /\ \A t \in Streams :
          Closes(t) => transports[t].sessionId \notin DOMAIN activeTransports'
     /\ \A sid \in ClosedIds : sid \notin DOMAIN activeTransports'
     /\ (NewPost /\ posts'[Len(posts')].sessionId \in ClosedIds) =>
          posts'[Len(posts')].status = 404]_vars

\* C3 witness: a session answered a post while open, then closed, and a later
\* post with its identifier got 404.
C3_Witness ==
  \E p1 \in Posts : \E p2 \in Posts :
    /\ p1 < p2
    /\ posts[p1].sessionId = posts[p2].sessionId
    /\ posts[p1].fwd = "ok"
    /\ posts[p2].sessionId \in ClosedIds
    /\ posts[p2].status = 404

\* C4: a POST whose sessionId is a non-empty string that names no open session
\* is answered 404, and its message never reaches the engine or a handler.
C4_UnknownSession404 ==
  [][/\ (/\ NewPost
         /\ ~MissingSessionId(posts'[Len(posts')].sessionId)
         /\ posts'[Len(posts')].sessionId \notin OpenSessionIds) =>
          /\ posts'[Len(posts')].status = 404
          /\ posts'[Len(posts')].pc = "done"
          /\ engineLog' = engineLog
          /\ calls' = calls
     /\ \A p \in Posts : posts[p].status = 404 =>
          /\ posts'[p] = posts[p]
          /\ \A i \in 1..Len(engineLog') : engineLog'[i] # p
          /\ \A c \in calls' : c.chain # p]_vars

\* C5: a POST without sessionId (absent or empty) is answered 400 by the
\* route, whatever the registry holds, and never reaches the engine.
C5_MissingSessionId400 ==
  \A p \in Posts : posts[p].sessionId \in {Absent, ""} =>
    /\ posts[p].status = 400
    /\ posts[p].pc = "done"
    /\ posts[p].sentBy = "route"
    /\ posts[p].sends = 1
    /\ ~Delivered(p)
    /\ ~Invoked(p)

\* C5 witness: with a session open and serving a post, a later POST with an
\* empty sessionId got 400.
C5_Witness ==
  \E p1 \in Posts : \E p2 \in Posts :
    /\ p1 < p2
    /\ posts[p1].fwd = "ok"
    /\ transports[posts[p1].transport].reqOpen
    /\ posts[p2].sessionId = ""
    /\ posts[p2].status = 400

\* C6: when the forwarding of a posted message fails, the route answers 500 if
\* nothing was sent yet, sends nothing more if a response was already sent,
\* and the exception never leaves the route handler.
C6_ForwardFailure ==
  \A p \in Posts :
    posts[p].fwd \in {"throwSent", "throwUnsent", "notATransport"} =>
    /\ ~posts[p].escaped
    /\ posts[p].pc = "done"
    /\ posts[p].sends = 1
    /\ posts[p].fwd \in {"throwUnsent", "notATransport"} =>
         (posts[p].status = 500 /\ posts[p].sentBy = "route")
    /\ posts[p].fwd = "throwSent" => posts[p].sentBy = "transport"

\* C6 witness: one forwarding failed before any response, one after.
C6_Witness ==
  \E p1 \in Posts : \E p2 \in Posts :
    /\ posts[p1].fwd = "throwUnsent" /\ posts[p1].status = 500
    /\ posts[p2].fwd = "throwSent" /\ posts[p2].sends = 1

\* C7: the registry maps an identifier to the one transport that has it, two
\* streams whose clients are connected never share an identifier, and the
\* entry of an open session still names that session's own transport.
C7_OneTransportPerId ==
  /\ \A sid \in DOMAIN activeTransports :
       /\ activeTransports[sid] \in Streams
       /\ transports[activeTransports[sid]].sessionId = sid
  /\ \A t1 \in Streams : \A t2 \in Streams :
       (t1 # t2 /\ transports[t1].reqOpen /\ transports[t2].reqOpen)
       => transports[t1].sessionId # transports[t2].sessionId
  /\ \A t \in OpenStreams :
       LookupTransport(activeTransports, transports[t].sessionId) = t

\* C7 witness: two sessions open at once, each registered.
C7_Witness ==
  \E t1 \in OpenStreams : \E t2 \in OpenStreams :
    /\ t1 # t2
    /\ Cardinality(DOMAIN activeTransports) >= 2

\* C8: a tool handler invoked for a posted message gets exactly the headers of
\* the POST that carried the message.
C8_ContextIsOwnHeaders ==
  \A c \in calls : c.chain # NoChain => c.headers = HeadersOf(c.chain)

\* C8 witness: two POSTs of one session were in flight together and their
\* messages reached the handler in the other order.
C8_Witness ==
  /\ Len(engineLog) >= 2
  /\ engineLog[1] = 2 /\ engineLog[2] = 1
  /\ posts[1].sessionId = posts[2].sessionId
  /\ Invoked(1) /\ Invoked(2)

\* C9: a handler invoked outside every intake scope gets the empty header
\* mapping, also after posts with headers were processed; and no invocation
\* gets the headers of a POST other than the one that carried its message.
C9_ContextScoped ==
  \A c \in calls :
    IF c.chain = NoChain
    THEN c.headers = EmptyHeaders
    ELSE \A p \in Posts \ {c.chain} : c.headers # HeadersOf(p)

\* C9 witness: an invocation outside any scope, made after the processing of
\* a posted message had ended, with empty headers.
C9_Witness ==
  \E c \in calls : c.chain = NoChain /\ c.afterPost /\ c.headers = EmptyHeaders

\* C10: the messages of one session reach the engine in the order in which
\* their POST requests were received.
C10_DeliveredInArrivalOrder ==
  \A i \in 1..Len(engineLog) : \A j \in 1..Len(engineLog) :
    (i < j /\ posts[engineLog[i]].sessionId = posts[engineLog[j]].sessionId)
    => engineLog[i] < engineLog[j]

\* C11: closing a stream does not cancel a handler in flight for its session;
\* when that handler settles after the close, its result is written to no
\* stream, neither the closed one nor that of another session.
C11_ResultAfterCloseDropped ==
  [][\A p \in Posts :
       /\ (\A s \in Streams : (Closes(s) /\ posts[p].pc = "running")
                                 => posts'[p].pc = "running")
       /\ (/\ posts[p].pc = "running"
           /\ posts'[p].pc = "done"
           /\ ~transports[posts[p].transport].reqOpen)
          => \A t \in Streams : transports'[t].frames = transports[t].frames
    ]_vars

\* C12 vocabulary: message q of a session other than the slow message's is
\* in progress while the slow handler is pending; q has been answered on the
\* stream of its session; the stream of q's session is closed.
OtherInProgress(q) ==
  /\ q \in Posts /\ SlowPost \in Posts
  /\ posts[SlowPost].pc = "running"
  /\ posts[q].sessionId # posts[SlowPost].sessionId
  /\ posts[q].pc \in {"reading", "running"}
AnsweredOnOwnStream(q) ==
  q \in Posts /\ posts[q].transport \in Streams
              /\ q \in transports[posts[q].transport].frames
OwnStreamClosed(q) ==
  q \in Posts /\ posts[q].transport \in Streams
              /\ ~transports[posts[q].transport].reqOpen

\* C12: a handler that stays pending delays only its own message: every
\* message of another session accepted meanwhile is processed and eventually
\* gets its response (unless its own session is closed first).
C12_OthersGetResponse ==
  \A q \in 1..MaxPosts :
    OtherInProgress(q) ~> (AnsweredOnOwnStream(q) \/ OwnStreamClosed(q))

\* The part of C12 that does not depend on where the engine writes: the
\* handler of every such message runs to completion.
OthersRunToCompletion ==
  \A q \in 1..MaxPosts :
    OtherInProgress(q) ~> (q \in Posts /\ posts[q].pc = "done")

\* Registry vocabulary: the specifications whose definition passed
\* validation, and their names.
ValidSpecs == {i \in 1..Len(client.tools) :
                 ToolSchemaAccepts(ToolDefinition(client.tools[i]))}
ValidNames == {client.tools[i].name : i \in ValidSpecs}

\* C13: for every list of tool specifications the construction completes and
\* tools/list and getTools() return exactly the names of the specifications
\* whose definition passed validation.
C13_ListedAreTheValid ==
  reply.method \in {"tools/list", "getTools"}
    => client.built /\ reply.kind = "result" /\ reply.names = ValidNames

\* The names tools/call can execute.
CallableNames == DOMAIN client.toolHandlerMap

\* C14: whatever the registered tools (none at all included), a tools/call
\* naming a tool that is not registered gets a normal result with
\* isError: true whose text names the tool, never a protocol error.
C14_UnknownToolIsErrorResult ==
  (reply.method = "tools/call" /\ reply.name \notin CallableNames)
    => /\ reply.kind = "result"
       /\ reply.isError
       /\ reply.content = <<"Error: Unknown tool '" \o reply.name \o "'">>

\* C15: a failure thrown by a registered tool's handler comes back as a
\* normal result with isError: true carrying the failure's message.
C15_ThrownBecomesIsError ==
  (/\ reply.method = "tools/call"
   /\ reply.name \in CallableNames
   /\ reply.behaviour \in Throwing)
    => /\ reply.kind = "result"
       /\ reply.isError
       /\ reply.content = <<"Error executing tool " \o reply.name \o ": "
                             \o CaughtText(reply.behaviour)>>

\* Vocabulary for the handlers built by mcpTool.
WrapDone == wrap.phase = "done"
GivenArgs == ArgsCases[wrap.argsCase]
Returned == GivenArgs.valid /\ wrap.behaviour = "returns"
ReturnedCase == ReturnCases[wrap.returnCase]
HasOutputSchema == wrap.tool.outputSchema.kind # "none"
OutputIssues == Issues(wrap.tool.outputSchema, ReturnedCase.value, <<>>)
\* The response carries isError: true.
IsErrorResponse(r) == Get(r, "isError") = Bool("true")
\* The value is an object carrying a content list.
ProtocolShaped(v) == v.kind = "object" /\ Get(v, "content").kind = "array"

\* C16: for every argument payload that fails the input schema the wrapper
\* returns (does not throw) a response with isError: true whose text lists
\* every failing field path with its message, and the user handler is not
\* called.
C16_InvalidArgsReported ==
  (WrapDone /\ ~GivenArgs.valid)
    => /\ wrap.outcome.type = "return"
       /\ wrap.outcome.response =
            ErrorResponse("Input validation error: " \o GivenArgs.failing)
       /\ wrap.outcome.handlerCalls = 0

\* A payload with three failing fields, one of them nested, was rejected.
C16_Witness ==
  /\ WrapDone /\ ~GivenArgs.valid
  /\ Len(Issues(wrap.tool.schema, GivenArgs.args, <<>>)) = 3
  /\ IsErrorResponse(wrap.outcome.response)
  /\ wrap.outcome.handlerCalls = 0

\* C17 as stated: with an output schema, a returned value that fails it gives
\* a response with isError: true describing the violation; one that passes
\* gives a response that is not an error and is the formatting of the value.
C17_PassingOutputNotError ==
  (WrapDone /\ Returned /\ HasOutputSchema)
    => /\ wrap.outcome.type = "return"
       /\ IF OutputIssues # <<>>
          THEN wrap.outcome.response =
                 ErrorResponse("Output validation error: " \o ErrorMessage(OutputIssues))
          ELSE /\ wrap.outcome.response = FormatOutput(ReturnedCase.value)
               /\ ~IsErrorResponse(wrap.outcome.response)

\* C17 amended: ... one that passes gives the formatting of the value, which
\* is flagged as an error only when the value is itself a protocol-shaped
\* response carrying isError: true (it is then returned as it is).
C17_OutputChecked ==
  (WrapDone /\ Returned /\ HasOutputSchema)
    => /\ wrap.outcome.type = "return"
       /\ IF OutputIssues # <<>>
          THEN wrap.outcome.response =
                 ErrorResponse("Output validation error: " \o ErrorMessage(OutputIssues))
          ELSE /\ wrap.outcome.response = FormatOutput(ReturnedCase.value)
               /\ IsErrorResponse(wrap.outcome.response)
                    => /\ ProtocolShaped(ReturnedCase.value)
                       /\ IsErrorResponse(ReturnedCase.value)

\* An object accepted by the object output schema was formatted.
C17_Witness ==
  /\ WrapDone /\ Returned
  /\ wrap.tool.outputSchema.kind = "object"
  /\ OutputIssues = <<>>
  /\ wrap.outcome.response = TextResponse(ReturnedCase.indented)
  /\ ~IsErrorResponse(wrap.outcome.response)

\* C18: without an output schema, a return value that is not a string gives
\* a response with isError: true reporting the value; it is never formatted
\* as a successful result.
C18_NonStringReported ==
  (WrapDone /\ Returned /\ ~HasOutputSchema /\ ReturnedCase.value.kind # "string")
    => /\ wrap.outcome.type = "return"
       /\ wrap.outcome.response =
            ErrorResponse("Handler returned non-string value, but no output schema was provided. Value: "
                            \o ReturnedCase.compact)

\* An object returned without an output schema was reported.
C18_Witness ==
  /\ WrapDone /\ Returned /\ ~HasOutputSchema
  /\ ReturnedCase.value.kind = "object"
  /\ IsErrorResponse(wrap.outcome.response)

\* The returned value went through output formatting: it passed the output
\* schema, or it is a string and there is no output schema.
Formatted ==
  /\ WrapDone /\ Returned
  /\ IF HasOutputSchema THEN OutputIssues = <<>>
     ELSE ReturnedCase.value.kind = "string"

\* C19: formatting by type (of a value that is not already protocol-shaped):
\* a string gives one text block holding it; null or undefined one text block
\* with empty text; another object or an array one text block holding its
\* indented JSON serialization; another scalar one text block holding its
\* string form.
C19_FormattedByType ==
  (Formatted /\ ~ProtocolShaped(ReturnedCase.value))
    => wrap.outcome.response =
         TextResponse(
           CASE ReturnedCase.value.kind = "string" -> ReturnedCase.value.lit
             [] ReturnedCase.value.kind \in {"null", "undefined"} -> ""
             [] ReturnedCase.value.kind \in {"object", "array"} -> ReturnedCase.indented
             [] OTHER -> ReturnedCase.text)

\* A nested object was formatted as indented JSON.
C19_Witness ==
  /\ Formatted
  /\ ReturnedCase.value = Obj(<<Field("main", Obj(<<Field("temp", Num("72"))>>))>>)
  /\ wrap.outcome.response =
       TextResponse("{\n  \"main\": {\n    \"temp\": 72\n  }\n}")

\* C20: a protocol-shaped value returned by the user handler is returned
\* unchanged by the wrapper, whether or not an output schema was given.
C20_ProtocolShapedUnchanged ==
  (WrapDone /\ Returned /\ ProtocolShaped(ReturnedCase.value))
    => /\ wrap.outcome.type = "return"
       /\ wrap.outcome.response = ReturnedCase.value

\* C21: a failure thrown by the user handler that is no schema validation
\* failure is rethrown by the wrapper unchanged, never turned into a response.
C21_FailureRethrown ==
  (WrapDone /\ GivenArgs.valid /\ wrap.behaviour = "throwsError")
    => /\ wrap.outcome.type = "throw"
       /\ wrap.outcome.error = UserErrors[wrap.returnCase]
       /\ wrap.outcome.response = Undefined

\* The user handler threw an Error and the wrapper threw it on.
C21_Witness ==
  /\ WrapDone /\ GivenArgs.valid /\ wrap.behaviour = "throwsError"
  /\ wrap.outcome.handlerCalls = 1
  /\ wrap.outcome.type = "throw"
  /\ Get(wrap.outcome.error, "message") = Str("Unauthorized")

\* The result of a tools/call for a tool built by mcpTool whose handler
\* returns the string str, called with the arguments args.
StringToolResult(outputSchema, args, str) ==
  ToolsCallResult("get_weather",
    WrappedHandler([schema |-> InputSchema, outputSchema |-> outputSchema],
                   args, "returns", Str(str)))

\* C22: a tools/call for a registered string-returning tool, posted with
\* valid arguments on an open session S, yields a response (on S's stream)
\* whose content is exactly one text block containing the returned string,
\* with isError false or absent.
C22_StringToolAnswered ==
  /\ \A p \in Posts :
       (/\ posts[p].fwd = "ok" /\ posts[p].pc = "done"
        /\ posts[p].transport \in OpenStreams)
         => \E t \in Streams : /\ transports[t].sessionId = posts[p].sessionId
                               /\ p \in transports[t].frames
  /\ \A o \in {NoSchema, ZString} : \A a \in 1..Len(ArgsCases) :
       \A str \in {"", "sunny"} :
         ArgsCases[a].valid =>
           LET res == StringToolResult(o, ArgsCases[a].args, str)
           IN /\ Get(res, "content") =
                   Arr(<<Obj(<<Field("type", Str("text")), Field("text", Str(str))>>)>>)
              /\ Get(res, "isError") \in {Bool("false"), Undefined}

\* The content half of C22 on its own.
StringToolContent ==
  \A o \in {NoSchema, ZString} : \A a \in 1..Len(ArgsCases) :
    \A str \in {"", "sunny"} :
      ArgsCases[a].valid =>
        StringToolResult(o, ArgsCases[a].args, str) =
          Obj(<<Field("content", Arr(<<Obj(<<Field("type", Str("text")),
                                            Field("text", Str(str))>>)>>)),
                Field("isError", Bool("false"))>>)

C24_BasePathNormalized ==
  reply.method = "getEndpoint" =>
    /\ StartsWithSlash(reply.content)
    /\ ~EndsWithSlash(reply.content)

\* What the instance built from DefaultOptions is configured with.
ConfiguredMetadata ==
  [endpoint |-> <<"/", "m", "c", "p">>, ssePath |-> "/sse",
   messagePath |-> "/message", tools |-> {"get_weather"}, debug |-> FALSE,
   serverName |-> "demo-server", serverVersion |-> "1.0.0"]

\* C25: after construction, no stream open, disconnect, posted message or
\* tool call changes the instance's configuration or its registered tool
\* definitions and handlers: getMetadata() and tools/list return the same
\* values in every reachable state.
C25_ConfigurationFrozen ==
  /\ client = NewMCPClient(DefaultOptions)
  /\ (reply.method = "getMetadata" => reply.metadata = ConfiguredMetadata)
  /\ (reply.method = "tools/list" => reply.names = ConfiguredMetadata.tools)

\* getMetadata() is answered after a stream was opened and closed and a tool
\* call made on another stream has settled.
C25_Witness ==
  /\ reply.method = "getMetadata"
  /\ ClosedIds # {}
  /\ \E p \in Posts : Invoked(p) /\ posts[p].pc = "done"

\* The tools each instance was constructed with.
OwnToolNames(i) ==
  {InstanceOptions[i].tools[n].name : n \in DOMAIN InstanceOptions[i].tools}

\* The instance session identifier sid was opened on.
OpenedOn(sid, i) ==
  \E k \in InstanceSessions :
    instances.sessions[k].sessionId = sid /\ instances.sessions[k].owner = i

\* C26: several instances are isolated: each has its own session registry
\* and its own tools.  The identifier of a session opened on one instance is
\* answered 404 when posted to another instance, and tools/list on an
\* instance returns that instance's tools only.
C26_InstancesIsolated ==
  /\ \A i \in InstanceIds :
       \A sid \in DOMAIN instances.list[i].activeTransports : OpenedOn(sid, i)
  /\ (instances.answer.kind = "post"
        /\ \E j \in InstanceIds \ {instances.answer.instance} :
             OpenedOn(instances.answer.q, j))
       => instances.answer.status = 404
  /\ instances.answer.kind = "list"
       => instances.answer.names = OwnToolNames(instances.answer.instance)

\* A session is open on one instance and its identifier was just posted to
\* the other one.
C26_Witness ==
  /\ instances.answer.kind = "post"
  /\ \E k \in InstanceSessions :
       /\ instances.sessions[k].open
       /\ instances.sessions[k].sessionId = instances.answer.q
       /\ instances.sessions[k].owner # instances.answer.instance

\* The lifecycle state of the session of stream t.  OPENING (registered, the
\* engine being connected) lies inside the step that opens the stream.
SessionState(reg, t) ==
  IF LookupTransport(reg, transports[t].sessionId) = t THEN "OPEN" ELSE "CLOSED"

\* C27: a session only moves forward, from OPENING to OPEN to CLOSED: its
\* identifier is registered at most once, an identifier that has left the
\* registry never enters it again, and a keepalive timer that was cancelled
\* is never scheduled again.
C27_SessionOnlyForward ==
  [][/\ \A sid \in UsedIds \ DOMAIN activeTransports :
          sid \notin DOMAIN activeTransports'
     /\ \A sid \in DOMAIN activeTransports' \ DOMAIN activeTransports :
          /\ NewStream
          /\ sid \notin UsedIds
          /\ activeTransports'[sid] = Len(transports')
     /\ \A t \in Streams :
          /\ SessionState(activeTransports, t) = "CLOSED"
               => SessionState(activeTransports', t) = "CLOSED"
          /\ ~transports[t].pingInterval => ~transports'[t].pingInterval
          /\ transports'[t].sessionId = transports[t].sessionId]_vars

\* A session was open and has been closed, and a stream opened later is
\* registered under another identifier with its keepalive scheduled.
C27_Witness ==
  \E t1 \in Streams : \E t2 \in OpenStreams :
    /\ t1 < t2
    /\ transports[t1].status = 200 /\ ~transports[t1].reqOpen
    /\ ~transports[t1].pingInterval
    /\ transports[t2].pingInterval
    /\ DOMAIN activeTransports = {transports[t2].sessionId}

\* Streams whose transport had no session identifier.
NoIdStreams(trs) == {t \in 1..Len(trs) : trs[t].sessionId = NoSessionId}

\* C28: when the new transport has no session identifier, the stream
\* request is answered 500 and nothing else happens, then or later: no
\* registry entry, no keepalive timer, no close listener, and the engine is
\* not connected to that transport.
C28_NoIdentifierOnly500 ==
  [][/\ \A t \in NoIdStreams(transports') :
          /\ transports'[t].status = 500
          /\ transports'[t].resEnded
          /\ ~transports'[t].pingInterval
          /\ ~transports'[t].reqOpen
          /\ transports'[t].frames = {}
          /\ serverTransport' # t
          /\ \A sid \in DOMAIN activeTransports' : activeTransports'[sid] # t
     /\ (NewStream /\ Len(transports') \in NoIdStreams(transports')) =>
          /\ activeTransports' = activeTransports
          /\ serverTransport' = serverTransport
          /\ \A t \in Streams : transports'[t] = transports[t]]_vars

\* A stream request was answered 500 for want of an identifier while another
\* session was open, which is still registered and attached to the engine.
C28_Witness ==
  \E t \in NoIdStreams(transports) : \E u \in OpenStreams :
    /\ u < t
    /\ serverTransport = u
    /\ DOMAIN activeTransports = {transports[u].sessionId}

\* C29: when the client of an open session disconnects, that same step
\* cancels the session's keepalive timer, closes its transport and removes
\* its registry entry; no keepalive frame is written to that stream
\* afterwards.
C29_DisconnectStopsKeepalive ==
  [][\A t \in Streams :
       /\ Closes(t) =>
            /\ ~transports'[t].pingInterval
            /\ ~transports'[t].sseResponse
            /\ (transports[t].sseResponse => transports'[t].resEnded)
            /\ LookupTransport(activeTransports', transports[t].sessionId)
                 = NoTransport
       /\ ~transports[t].reqOpen =>
            transports'[t].pings = transports[t].pings]_vars

\* A session that had keepalive frames written was disconnected, and frames
\* were written to another session's stream after that.
C29_Witness ==
  \E t \in Streams : \E u \in OpenStreams :
    /\ t < u
    /\ transports[t].status = 200 /\ ~transports[t].reqOpen
    /\ transports[t].pings > 0
    /\ transports[u].pings > 0

\* The step opens a stream whose server.connect() rejects.
ConnectFailed ==
  /\ NewStream
  /\ transports'[Len(transports')].sessionId # NoSessionId
  /\ ~transports'[Len(transports')].sseResponse

\* C30: when connecting the engine to a new session's transport fails, the
\* session's keepalive timer is cancelled and its registry entry removed
\* (the other entries stay), and the request is answered 500 exactly when
\* no response head had been sent.
C30_ConnectFailureCleansUp ==
  [][ConnectFailed =>
       LET tr == transports'[Len(transports')]
       IN /\ ~tr.pingInterval
          /\ LookupTransport(activeTransports', tr.sessionId) = NoTransport
          /\ activeTransports' = activeTransports
          /\ (tr.status = 500) <=> ~tr.wroteHead
          /\ tr.status = 500 => tr.resEnded]_vars

\* One connect failed before the head was sent and was answered 500, and
\* one failed after the head (200) had been sent.
C30_Witness ==
  \E t \in Streams : \E u \in Streams :
    /\ ~transports[t].sseResponse /\ transports[t].status = 500
    /\ ~transports[t].wroteHead
    /\ ~transports[u].sseResponse /\ transports[u].status = 200
    /\ transports[u].wroteHead /\ ~transports[u].pingInterval
    /\ transports[u].reqOpen

\* C31: when connecting the engine to a new session's transport fails, the
\* transport is closed as on a client disconnect (the engine is detached
\* from it), and when the response head had been sent the response is ended:
\* the stream does not stay open for a session that is not registered.
C31_ConnectFailureClosesTransport ==
  [][ConnectFailed =>
       LET tr == transports'[Len(transports')]
       IN /\ serverTransport' # Len(transports')
          /\ tr.wroteHead => tr.resEnded]_vars

\* The step is a run of the keepalive callback of stream t that wrote a
\* frame or cancelled the timer.
TickOf(t) ==
  /\ transports'[t] # transports[t]
  /\ transports'[t].reqOpen = transports[t].reqOpen
  /\ transports'[t].resEnded = transports[t].resEnded

\* C32: a keepalive tick writes a comment frame if and only if the response
\* has not ended (and the write succeeds); a tick that finds the response
\* ended, or whose write fails, cancels the timer, and once the timer is
\* cancelled no tick writes to that stream again.
C32_TickWritesWhileWritable ==
  [][\A t \in Streams :
       /\ TickOf(t) =>
            /\ transports[t].pingInterval
            /\ IF transports[t].resEnded
               THEN /\ transports'[t].pings = transports[t].pings
                    /\ ~transports'[t].pingInterval
               ELSE \/ /\ transports'[t].pings = transports[t].pings + 1
                       /\ transports'[t].pingInterval
                    \/ /\ transports'[t].pings = transports[t].pings
                       /\ ~transports'[t].pingInterval
       /\ ~transports[t].pingInterval =>
            /\ transports'[t].pings = transports[t].pings
            /\ ~transports'[t].pingInterval]_vars

\* One stream's timer was cancelled by a tick that found the response ended
\* after frames had been written, another's by a write that failed.
C32_Witness ==
  \E t \in Streams : \E u \in Streams :
    /\ t # u
    /\ transports[t].reqOpen /\ transports[t].resEnded
    /\ transports[t].status = 200
    /\ transports[t].pings > 0 /\ ~transports[t].pingInterval
    /\ transports[u].reqOpen /\ ~transports[u].resEnded
    /\ transports[u].sseResponse /\ ~transports[u].pingInterval

\* The schema document, its subschemas and its embedded output schema carry
\* no $schema meta-property (a field of the described object may have any
\* name).
RECURSIVE MetaFree(_)
MetaFree(doc) ==
  /\ ~HasKey(doc, "$schema")
  /\ \A i \in 1..Len(Get(doc, "properties").entries) :
       MetaFree(Get(doc, "properties").entries[i].val)
  /\ HasKey(doc, "x-output-schema") => MetaFree(Get(doc, "x-output-schema"))

\* C33: the published input schema of a tool built with mcpTool never
\* contains the $schema meta-property, and it contains the embedded output
\* schema (x-output-schema, itself without $schema) if and only if an
\* output schema was supplied.
C33_PublishedSchemaStripped ==
  reply.method = "mcpTool" =>
    /\ MetaFree(reply.content)
    /\ HasKey(reply.content, "x-output-schema") <=> HasOutputSchema
    /\ HasOutputSchema =>
         Get(reply.content, "x-output-schema")
           = Obj(JsonSchemaOf(wrap.tool.outputSchema).entries)

\* The schema of a tool with an object output schema, built from an input
\* schema with a field named $schema, was published.
C33_Witness ==
  /\ reply.method = "mcpTool"
  /\ wrap.tool.outputSchema = WeatherSchema
  /\ HasKey(Get(reply.content, "properties"), "$schema")
  /\ Get(Get(reply.content, "x-output-schema"), "type") = Str("object")

\* C34: while the debug flag is false the instance writes no log line at
\* all, whatever fails (a connect, a forwarding, a session lookup, a tool
\* definition).
C34_SilentWithoutDebug ==
  ~client.debug => console = {}

\* C35: in every reachable state a session identifier is in the registry if
\* and only if that session's keepalive timer is scheduled.
C35_RegisteredIffKeepalive ==
  \A t \in Streams :
    (transports[t].sessionId \in DOMAIN activeTransports
       /\ activeTransports[transports[t].sessionId] = t)
    <=> transports[t].pingInterval

\* The step belongs to the handling of a POST /message: it is received, its
\* forwarding goes on, or its handler settles.
PostStep == NewPost \/ \E p \in Posts : posts'[p] # posts[p]

\* C36: the message intake endpoint never modifies the session registry:
\* whatever its outcome (400, 404, 500 or forwarded), the registered
\* sessions and their transports are the same after the POST as before.
C36_PostLeavesRegistry ==
  [][PostStep => activeTransports' = activeTransports]_vars

\* With a session registered, one POST was forwarded (202) and another was
\* answered with an error status.
C36_Witness ==
  /\ DOMAIN activeTransports # {}
  /\ \E p1 \in Posts : \E p2 \in Posts :
       /\ posts[p1].status = 202
       /\ posts[p2].status \in {400, 404, 500} /\ posts[p2].pc = "done"

\* C37: a session's registry entry is inserted before the engine is
\* connected to its transport (registeredFirst), so whenever a client can
\* have learned a session identifier from its stream and that stream has
\* not closed or failed, a POST with that identifier finds the session: it
\* is not answered 404 and is forwarded to that session's transport.
C37_RegisteredBeforeConnect ==
  [][/\ \A t \in 1..Len(transports') :
          transports'[t].sseResponse =>
            /\ transports'[t].registeredFirst
            /\ LookupTransport(activeTransports', transports'[t].sessionId) = t
     /\ (NewPost /\ posts'[Len(posts')].sessionId \in OpenSessionIds) =>
          /\ posts'[Len(posts')].status # 404
          /\ posts'[Len(posts')].transport \in OpenStreams
          /\ transports[posts'[Len(posts')].transport].sessionId
               = posts'[Len(posts')].sessionId]_vars

\* Two sessions are open, and a POST for the one opened first was received
\* after the second had opened and is being forwarded.
C37_Witness ==
  \E p \in Posts : \E t \in OpenStreams : \E u \in OpenStreams :
    /\ t < u
    /\ posts[p].sessionId = transports[t].sessionId
    /\ posts[p].transport = t
    /\ posts[p].status # 404

\* The specification whose definition tools/list shows under name n.
ListedUnder(n) ==
  {i \in ObjectValues(client.toolDefinitionsMap) : client.tools[i].name = n}

\* C38: for every list of tool specifications, the names tools/call can
\* execute are the names tools/list returns; the handler executed for a
\* name is the handler of the specification whose definition is listed
\* under that name, and the handler of a specification that failed
\* validation is never executed.
C38_CallableAreTheListed ==
  /\ client.built => CallableNames = ListedNames(client)
  /\ (reply.method = "tools/call" /\ reply.ran # 0) =>
       /\ reply.ran \in ListedUnder(reply.name)
       /\ reply.ran \in ValidSpecs

\* The responses that report an input validation error: isError with a text
\* that begins 'Input validation error: ' and goes on with the failing
\* fields of some payload or the issues of a schema error raised elsewhere.
InputValidationErrors ==
  {ErrorResponse("Input validation error: " \o t) :
     t \in {ArgsCases[a].failing : a \in 1..Len(ArgsCases)}
            \cup {"id: Invalid uuid"}}

\* C39: the wrapper returns an 'Input validation error' response only when
\* the arguments failed the input schema: when they pass, the user handler
\* is called exactly once, and whatever it returns or throws (a schema
\* validation error raised inside the handler included) is not reported as
\* an input validation error.
C39_InputErrorOnlyForInput ==
  (WrapDone /\ GivenArgs.valid)
    => /\ wrap.outcome.handlerCalls = 1
       /\ wrap.outcome.response \notin InputValidationErrors

====
